---------------------------- MODULE Spec2Model ----------------------------
(***************************************************************************)
(* Model of the inter-process event bus of the server manager:             *)
(*   bus/events.py          catalog, EncodedEvent codec                    *)
(*   bus/bus_data.py        BusData, BusMessagePrefix                      *)
(*   bus/bus_dispatcher.py  BusDispatcher (shared rings, main loop)        *)
(*   bus/bus.py             Bus (endpoint: trigger, wait_for, listener)    *)
(*                                                                         *)
(* Strings are sequences of character codes (ASCII), so that formatting,   *)
(* splitting and parsing are computed as the code computes them.           *)
(***************************************************************************)
EXTENDS Integers, Sequences, FiniteSets, TLC

(***************************************************************************)
(* Bounds of the model.                                                    *)
(***************************************************************************)
\* ring size (configuration bus.memory_size), scaled down
MemorySize == 2
\* slot width (configuration bus.max_string_length), scaled down
MaxStringLength == 25
\* endpoint ids are drawn from 1..MaxId (randint(1, 255) scaled down)
MaxId == 2
\* message ids are drawn from 0..MaxMsgId (randint(0, 255) scaled down)
MaxMsgId == 1
\* number of trigger calls made by application threads and of get_bus_data
\* calls made while mainloop runs, in one behaviour of each scenario
RouteSends == 2
RouteRegs == 1
JoinSends == 1
JoinRegs == 2
FifoSends == 3
ReqSends == 2
WriteSends == 4
FragSends == 2
BadSends == 2
RaiseSends == 2
LifeSends == 2
LifeCalls == 3
IdsSends == 1
IdsRegs == 4
QuitSends == 2
FwdSends == 3
FwdRegs == 1
ShutSends == 1
ShutRegs == 3
ArgsSends == 2
CodecLen == 2
SourceLen == 2
RegCalls == 3

(***************************************************************************)
(* Characters and strings.                                                 *)
(***************************************************************************)
FILE_SEPARATOR == 28
GROUP_SEPARATOR == 29
RECORD_SEPARATOR == 30
SPACE == 32

\* ' ' * max_string_length
EmptyString == [i \in 1..MaxStringLength |-> SPACE]

\* one hexadecimal digit, as printed by the X (upper) and x (lower) format codes
HexDigit(d, upper) ==
    IF d < 10 THEN 48 + d ELSE IF upper THEN 55 + d ELSE 87 + d

RECURSIVE HexDigits(_, _)
HexDigits(n, upper) ==
    IF n < 16 THEN <<HexDigit(n, upper)>>
    ELSE HexDigits(n \div 16, upper) \o <<HexDigit(n % 16, upper)>>

RECURSIVE ZeroPad(_, _)
ZeroPad(s, width) == IF Len(s) >= width THEN s ELSE ZeroPad(<<48>> \o s, width)

\* f"{n:02X}", f"{n:02x}", f"{n:05x}": zero-padded to at least `width` digits
FormatHex(n, width, upper) == ZeroPad(HexDigits(n, upper), width)

HexValue(c) ==
    IF c \in 48..57 THEN c - 48
    ELSE IF c \in 65..70 THEN c - 55
    ELSE IF c \in 97..102 THEN c - 87
    ELSE -1

RECURSIVE HexAcc(_, _)
HexAcc(s, acc) ==
    IF s = <<>> THEN acc
    ELSE IF HexValue(Head(s)) < 0 THEN -1
    ELSE HexAcc(Tail(s), 16 * acc + HexValue(Head(s)))

\* int(s, 16); -1 stands for ValueError
ParseHex(s) == IF s = <<>> THEN -1 ELSE HexAcc(s, 0)

\* position of the first occurrence of c in s, 0 when absent
RECURSIVE IndexOf(_, _, _)
IndexOf(s, c, i) ==
    IF i > Len(s) THEN 0 ELSE IF s[i] = c THEN i ELSE IndexOf(s, c, i + 1)

\* s.split(sep): always at least one part
RECURSIVE Split(_, _)
Split(s, sep) ==
    LET Cut(v, i) ==
          IF i = 0 THEN <<v>>
          ELSE <<SubSeq(v, 1, i - 1)>> \o Split(SubSeq(v, i + 1, Len(v)), sep)
    IN  CHOOSE parts \in {Cut(v, i) : v \in {s}, i \in {IndexOf(s, sep, 1)}} : TRUE

\* s.split(sep, 1): one or two parts
SplitOnce(s, sep) ==
    LET i == IndexOf(s, sep, 1) IN
    IF i = 0 THEN <<s>>
    ELSE <<SubSeq(s, 1, i - 1), SubSeq(s, i + 1, Len(s))>>

\* sep.join(parts)
RECURSIVE Join(_, _)
Join(parts, sep) ==
    IF parts = <<>> THEN <<>>
    ELSE IF Len(parts) = 1 THEN parts[1]
    ELSE parts[1] \o <<sep>> \o Join(Tail(parts), sep)

(***************************************************************************)
(* BusMessagePrefix (bus_data.py).                                         *)
(***************************************************************************)
BusMessagePrefix(source_id, target_id, fragment_number, fragment_count, message_id) ==
    [source_id |-> source_id, target_id |-> target_id,
     fragment_number |-> fragment_number, fragment_count |-> fragment_count,
     message_id |-> message_id]

\* BusMessagePrefix.__str__
PrefixStr(p) ==
    Join(<<FormatHex(p.source_id, 2, TRUE),
           FormatHex(p.target_id, 2, TRUE),
           FormatHex(p.fragment_number, 2, TRUE),
           FormatHex(p.fragment_count, 2, TRUE),
           FormatHex(p.message_id, 2, TRUE)>>, GROUP_SEPARATOR)

\* BusMessagePrefix.length()
PrefixLength == 5 * 2 + 4 + 1

NoPrefix == BusMessagePrefix(-1, -1, -1, -1, -1)

\* BusMessagePrefix.from_string; ok = FALSE stands for ValueError
PrefixFromString(encoded) ==
    LET Build(parts) ==
          IF Len(parts) # 5 THEN [ok |-> FALSE, prefix |-> NoPrefix]
          ELSE IF \E i \in 1..5 : ParseHex(parts[i]) < 0
          THEN [ok |-> FALSE, prefix |-> NoPrefix]
          ELSE [ok |-> TRUE,
                prefix |-> [source_id |-> ParseHex(parts[1]),
                            target_id |-> ParseHex(parts[2]),
                            fragment_number |-> ParseHex(parts[3]),
                            fragment_count |-> ParseHex(parts[4]),
                            message_id |-> ParseHex(parts[5])]]
    IN  CHOOSE r \in {Build(parts) : parts \in {Split(encoded, GROUP_SEPARATOR)}} : TRUE

\* Bus.__add_prefix
AddPrefix(encoded, prefix) == PrefixStr(prefix) \o <<FILE_SEPARATOR>> \o encoded

\* Bus.__read_prefix; ok = FALSE stands for the ValueError of the unpacking
\* (no FILE_SEPARATOR) or of from_string
ReadPrefix(encoded) ==
    LET WithPrefix(r, data) == [ok |-> r.ok, prefix |-> r.prefix, data |-> data]
        Unpack(two) ==
          IF Len(two) # 2 THEN [ok |-> FALSE, prefix |-> NoPrefix, data |-> <<>>]
          ELSE WithPrefix(PrefixFromString(two[1]), two[2])
    IN  Unpack(SplitOnce(encoded, FILE_SEPARATOR))

(***************************************************************************)
(* Catalog (events.py).  The catalog source events.xml is a data file;     *)
(* two events of the shapes the interfaces use are taken from it.          *)
(***************************************************************************)
EventArg(name, type, id) == [name |-> name, type |-> type, id |-> id]

Event(name, id, args, return_type) ==
    [name |-> name, id |-> id, args |-> args, return_type |-> return_type]

\* SERVER.PING(server_name: str) -> str
PING == Event(<<"SERVER", "PING">>, 1,
              <<EventArg("server_name", "str", 1)>>, "str")

\* CONSOLE.MESSAGE(text: str) -> None
MESSAGE == Event(<<"CONSOLE", "MESSAGE">>, 2,
                 <<EventArg("text", "str", 1)>>, "None")

\* SERVER.STARTED(timestamp: datetime, server_name: str) -> None
STARTED == Event(<<"SERVER", "STARTED">>, 3,
                 <<EventArg("timestamp", "datetime", 1),
                   EventArg("server_name", "str", 2)>>, "None")

\* SERVER.CREATE, with three of its arguments:
\* (server_name: str, autostart: bool, ram: int) -> None
CREATE == Event(<<"SERVER", "CREATE">>, 4,
                <<EventArg("server_name", "str", 1),
                  EventArg("autostart", "bool", 2),
                  EventArg("ram", "int", 3)>>, "None")

\* EventsType.events
Catalog == {PING, MESSAGE, STARTED, CREATE}

NoEvent == Event(<<>>, -1, <<>>, "None")

\* Event.return_event; ok = FALSE stands for ValueError
ReturnEvent(e) ==
    IF e.id > 65535 \/ (e.name # <<>> /\ e.name[Len(e.name)] = "RETURN")
    THEN [ok |-> FALSE, event |-> NoEvent]
    ELSE IF e.return_type = "None"
    THEN [ok |-> FALSE, event |-> NoEvent]
    ELSE [ok |-> TRUE,
          event |-> Event(e.name \o <<"RETURN">>, e.id + 65536,
                          <<EventArg("result", e.return_type, 1)>>, "None")]

\* EventsType.get_event; ok = FALSE stands for KeyError / ValueError
GetEvent(event_id) ==
    LET low == IF event_id > 65535 THEN event_id - 65536 ELSE event_id IN
    IF \E e \in Catalog : e.id = low
    THEN LET e == CHOOSE x \in Catalog : x.id = low IN
         IF event_id > 65535 THEN ReturnEvent(e) ELSE [ok |-> TRUE, event |-> e]
    ELSE [ok |-> FALSE, event |-> NoEvent]

(***************************************************************************)
(* Python values.  A str is the sequence of its character codes; a value   *)
(* of another type is a sequence that begins with a negative tag.          *)
(***************************************************************************)
\* datetime: the whole seconds of its timestamp() and its microsecond field
PyDatetime(seconds, microsecond) == <<-1, seconds, microsecond>>

\* int
PyInt(n) == <<-2, n>>

\* bool
PyBool(b) == <<-3, IF b THEN 1 ELSE 0>>

\* type(data).__name__
TypeName(data) ==
    IF data = <<>> THEN "str"
    ELSE IF data[1] >= 0 THEN "str"
    ELSE IF data[1] = -1 THEN "datetime"
    ELSE IF data[1] = -2 THEN "int"
    ELSE "bool"

DecDigit(d) == 48 + d

RECURSIVE DecDigits(_)
DecDigits(n) ==
    IF n < 10 THEN <<DecDigit(n)>> ELSE DecDigits(n \div 10) \o <<DecDigit(n % 10)>>

\* str(n) of an int
StrInt(n) == IF n < 0 THEN <<45>> \o DecDigits(-n) ELSE DecDigits(n)

DecValue(c) == IF c \in 48..57 THEN c - 48 ELSE -1

RECURSIVE DecAcc(_, _)
DecAcc(s, acc) ==
    IF s = <<>> THEN acc
    ELSE IF DecValue(Head(s)) < 0 THEN -1
    ELSE DecAcc(Tail(s), 10 * acc + DecValue(Head(s)))

\* int(s) of a string of digits with an optional sign; ok = FALSE stands for
\* ValueError
ParseInt(s) ==
    LET Signed(sign, digits) ==
          IF digits = <<>> THEN [ok |-> FALSE, n |-> 0]
          ELSE IF DecAcc(digits, 0) < 0 THEN [ok |-> FALSE, n |-> 0]
          ELSE [ok |-> TRUE, n |-> sign * DecAcc(digits, 0)]
    IN  IF s = <<>> THEN [ok |-> FALSE, n |-> 0]
        ELSE IF Head(s) = 45 THEN Signed(-1, Tail(s))
        ELSE IF Head(s) = 43 THEN Signed(1, Tail(s))
        ELSE Signed(1, s)

(***************************************************************************)
(* Value serializers (events.py encode / decode).                          *)
(***************************************************************************)
\* the truth value of data (`if data`)
Truth(data) ==
    IF TypeName(data) = "str" THEN data # <<>>
    ELSE IF TypeName(data) = "datetime" THEN TRUE
    ELSE data[2] # 0

\* encode(data, data_type) for a str, a datetime, an int or a bool and the
\* declared types string, datetime, int, bool; ok = FALSE stands for the
\* raised error.  str(data) of a value that is not a str is not modelled.
EncodeValue(data, data_type) ==
    IF data_type = "int"
    THEN IF TypeName(data) \in {"int", "bool"} THEN [ok |-> TRUE, s |-> StrInt(data[2])]
         ELSE IF TypeName(data) = "str" /\ ParseInt(data).ok
         THEN [ok |-> TRUE, s |-> StrInt(ParseInt(data).n)]
         ELSE [ok |-> FALSE, s |-> <<>>]
    ELSE IF data_type \in {"str", "string"}
    THEN IF TypeName(data) = "str" THEN [ok |-> TRUE, s |-> data]
         ELSE [ok |-> FALSE, s |-> <<>>]
    ELSE IF data_type = "bool"
    THEN [ok |-> TRUE, s |-> IF Truth(data) THEN <<116>> ELSE <<102>>]
    ELSE IF data_type = "datetime"
    THEN IF TypeName(data) = "datetime" THEN [ok |-> TRUE, s |-> StrInt(data[2])]
         ELSE [ok |-> FALSE, s |-> <<>>]
    ELSE [ok |-> FALSE, s |-> <<>>]

\* a decoder that returns the empty string for every value
DecodeValueEmpty(data, data_type) == [ok |-> TRUE, v |-> <<>>]

\* decode(data, data_type) for the same declared types
DecodeValue(data, data_type) ==
    IF data_type = "int"
    THEN IF ParseInt(data).ok THEN [ok |-> TRUE, v |-> PyInt(ParseInt(data).n)]
         ELSE [ok |-> FALSE, v |-> <<>>]
    ELSE IF data_type \in {"str", "string"} THEN [ok |-> TRUE, v |-> data]
    ELSE IF data_type = "bool"
    THEN IF data \in {<<116>>, <<102>>} THEN [ok |-> TRUE, v |-> PyBool(data = <<116>>)]
         ELSE [ok |-> FALSE, v |-> <<>>]
    ELSE IF data_type = "datetime"
    THEN IF ParseInt(data).ok THEN [ok |-> TRUE, v |-> PyDatetime(ParseInt(data).n, 0)]
         ELSE [ok |-> FALSE, v |-> <<>>]
    ELSE [ok |-> FALSE, v |-> <<>>]

(***************************************************************************)
(* EncodedEvent codec (events.py).  kwargs and decoded arguments are       *)
(* functions from argument names to values.                                *)
(***************************************************************************)
NoArgs == [n \in {} |-> <<>>]

RECURSIVE CreateArgs(_, _)
CreateArgs(args, kwargs) ==
    IF args = <<>> THEN <<>>
    ELSE <<FormatHex(Head(args).id, 2, FALSE) \o <<RECORD_SEPARATOR>>
             \o EncodeValue(kwargs[Head(args).name], Head(args).type).s>>
         \o CreateArgs(Tail(args), kwargs)

\* an encoder that leaves out the arguments that have no value
EventEncodeSkipsMissing(event, kwargs) ==
    [ok |-> TRUE,
     s |-> FormatHex(event.id, 5, FALSE) \o <<FILE_SEPARATOR>>
           \o Join(CreateArgs(SelectSeq(event.args, LAMBDA a : a.name \in DOMAIN kwargs),
                               kwargs), GROUP_SEPARATOR)]

\* EncodedEvent.create / Event.encode; ok = FALSE stands for the raised error
EventEncode(event, kwargs) ==
    IF \E i \in 1..Len(event.args) :
          \/ event.args[i].name \notin DOMAIN kwargs
          \/ ~EncodeValue(kwargs[event.args[i].name], event.args[i].type).ok
    THEN [ok |-> FALSE, s |-> <<>>]
    ELSE [ok |-> TRUE,
          s |-> FormatHex(event.id, 5, FALSE) \o <<FILE_SEPARATOR>>
                \o Join(CreateArgs(event.args, kwargs), GROUP_SEPARATOR)]

\* the loop over args_str of EncodedEvent.decode: acc.ok = FALSE stands for
\* ValueError (malformed), KeyError (unknown argument id), TypeError (convert)
RECURSIVE DecodeArgs(_, _, _)
DecodeArgs(args_str, event, acc) ==
    LET Store(arg, val) ==
          IF ~val.ok THEN [ok |-> FALSE, args |-> NoArgs]
          ELSE DecodeArgs(Tail(args_str), event,
                 [ok |-> TRUE,
                  args |-> [n \in DOMAIN acc.args \cup {arg.name} |->
                              IF n = arg.name THEN val.v ELSE acc.args[n]]])
        Convert(arg, value) == Store(arg, DecodeValue(value, arg.type))
        Find(arg_id, value, hit) ==
          IF arg_id < 0 \/ hit = {} THEN [ok |-> FALSE, args |-> NoArgs]
          ELSE Convert(event.args[CHOOSE i \in hit : \A j \in hit : i <= j], value)
        Lookup(arg_id, value) ==
          Find(arg_id, value, {i \in 1..Len(event.args) : event.args[i].id = arg_id})
        One(arg_parts) ==
          IF Len(arg_parts) # 2 THEN [ok |-> FALSE, args |-> NoArgs]
          ELSE Lookup(ParseHex(arg_parts[1]), arg_parts[2])
    IN  IF args_str = <<>> \/ ~acc.ok THEN acc
        ELSE IF Head(args_str) = <<>> THEN DecodeArgs(Tail(args_str), event, acc)
        ELSE One(Split(Head(args_str), RECORD_SEPARATOR))

\* EncodedEvent.decode / Event.decode
EventDecode(s) ==
    LET Failed == [ok |-> FALSE, event |-> NoEvent, args |-> NoArgs]
        Result(ev, r) == IF r.ok THEN [ok |-> TRUE, event |-> ev, args |-> r.args]
                         ELSE Failed
        Args(ev, args_str) ==
          IF ~ev.ok THEN Failed
          ELSE Result(ev.event, DecodeArgs(Split(args_str, GROUP_SEPARATOR), ev.event,
                                           [ok |-> TRUE, args |-> NoArgs]))
        Ident(event_id, args_str) ==
          IF event_id < 0 THEN Failed ELSE Args(GetEvent(event_id), args_str)
        Two(parts) == Ident(ParseHex(parts[1]), parts[2])
        Parts4(parts) ==
          IF Len(parts) < 2 THEN Failed
          ELSE IF Len(parts) = 4 THEN Two(SubSeq(parts, 3, 4))
          ELSE Two(parts)
    IN  Parts4(Split(s, FILE_SEPARATOR))

(***************************************************************************)
(* State.                                                                  *)
(*                                                                         *)
(* A ring slot is [s, uid, frag]: s is the stored string; uid and frag are *)
(* history fields naming the __send call and the fragment that produced    *)
(* it (0 for the empty sentinel).  No operation reads them.                *)
(***************************************************************************)
Keys == {"A", "B", "C"}
AppThreads == {"t1", "t2", "t3"}
WorkerThreads == {"w1", "w2", "w3"}
Threads == AppThreads \cup WorkerThreads

VARIABLES
    bus_datas,   \* BusDispatcher.__bus_datas: sequence of [key, h], insertion order
    ids,         \* BusDispatcher.__ids: key -> endpoint id, 0 when absent
    rings,       \* the shared lists: handle -> [w: write_list, r: read_list]
    disp,        \* the thread that runs BusDispatcher.mainloop
    bus,         \* key -> Bus object (handle, id, listen flag, subscribers)
    lst,         \* key -> the listener thread of the Bus (Bus.__read_incoming)
    thr,         \* thread -> a call of Bus.trigger / a callback worker
    scn,         \* the scenario: what the application threads may call
    database,    \* HttpServer.database: the tables of the sqlite file
    time,        \* datetime.now(), in whole seconds
    hist         \* history: calls made and what each step did

vars == <<bus_datas, ids, rings, disp, bus, lst, thr, scn, database, time, hist>>

EmptySlot == [s |-> EmptyString, uid |-> 0, frag |-> 0]

\* a Lock() nobody holds
Free == <<>>

\* [self.__empty_string] * self.__memory_size, twice (get_bus_data lines 70-75);
\* live: the two segments made by the SharedMemoryManager are allocated;
\* wl, rl: write_list_lock and read_list_lock (lines 84-85) with the thread
\* that holds them
NewRings == [w |-> [i \in 1..MemorySize |-> EmptySlot],
             r |-> [i \in 1..MemorySize |-> EmptySlot],
             live |-> TRUE, wl |-> Free, rl |-> Free]

\* a FirstEmpty that names the last slot when no slot is empty
FirstEmptyOrLast(list) ==
    IF \E i \in 1..Len(list) : list[i].s = EmptyString
    THEN CHOOSE i \in 1..Len(list) :
            /\ list[i].s = EmptyString
            /\ \A j \in 1..(i - 1) : list[j].s # EmptyString
    ELSE Len(list)

\* index of the first slot equal to the empty string, 0 when there is none
FirstEmpty(list) ==
    IF \E i \in 1..Len(list) : list[i].s = EmptyString
    THEN CHOOSE i \in 1..Len(list) :
            /\ list[i].s = EmptyString
            /\ \A j \in 1..(i - 1) : list[j].s # EmptyString
    ELSE 0

\* position of key in the dict, 0 when absent
DictIndex(d, key) ==
    IF \E i \in 1..Len(d) : d[i].key = key
    THEN CHOOSE i \in 1..Len(d) : d[i].key = key
    ELSE 0

\* iter(d.items()): the position reached and the size seen at creation
DictIter(d) == [pos |-> 0, used |-> Len(d)]

(***************************************************************************)
(* BusDispatcher (bus_dispatcher.py).                                      *)
(***************************************************************************)
\* BusDispatcher.get_bus_data(_for): new rings every call, a random id for a
\* key seen for the first time, the dict entry added or replaced
GetBusDataEffect(key, id) ==
    /\ rings' = Append(rings, NewRings)
    /\ ids' = IF ids[key] = 0 THEN [ids EXCEPT ![key] = id] ELSE ids
    /\ bus_datas' =
         IF DictIndex(bus_datas, key) = 0
         THEN Append(bus_datas, [key |-> key, h |-> Len(rings) + 1])
         ELSE [bus_datas EXCEPT ![DictIndex(bus_datas, key)].h = Len(rings) + 1]

GetBusData(key) ==
    /\ hist.regs < scn.max_regs
    /\ \E id \in 1..MaxId : GetBusDataEffect(key, id)
    /\ hist' = [hist EXCEPT !.regs = @ + 1,
                            !.got[key] = Append(@, [id |-> ids'[key], rel |-> hist.rel[key],
                                                    h |-> Len(rings) + 1])]
    /\ UNCHANGED <<disp, bus, lst, thr, scn, database, time>>

\* a release that forgets the id of the key as well
ReleaseForgetsId(key) ==
    /\ bus_datas' = SelectSeq(bus_datas, LAMBDA e : e.key # key)
    /\ rings' = [rings EXCEPT ![bus_datas[DictIndex(bus_datas, key)].h].live = FALSE]
    /\ ids' = [ids EXCEPT ![key] = 0]

\* a release that pops the entry and leaves its segments allocated
ReleaseKeepsSegments(key) ==
    /\ bus_datas' = SelectSeq(bus_datas, LAMBDA e : e.key # key)
    /\ rings' = rings
    /\ ids' = ids

\* BusDispatcher.release_shared_memory lines 50-54: the entry is popped from
\* __bus_datas, its shared lists are closed and unlinked; __ids is not touched
ReleaseEffect(key) ==
    /\ bus_datas' = SelectSeq(bus_datas, LAMBDA e : e.key # key)
    /\ rings' = [rings EXCEPT ![bus_datas[DictIndex(bus_datas, key)].h].live = FALSE]
    /\ ids' = ids

\* BusDispatcher.release_shared_memory(_for); KeyError for an unknown key
ReleaseSharedMemory(key) ==
    /\ hist.regs < scn.max_regs
    /\ IF DictIndex(bus_datas, key) = 0
       THEN UNCHANGED <<bus_datas, ids, rings>>
       ELSE ReleaseEffect(key)
    /\ hist' = [hist EXCEPT !.regs = @ + 1,
                            !.rel[key] = @ + (IF DictIndex(bus_datas, key) = 0 THEN 0 ELSE 1)]
    /\ UNCHANGED <<disp, bus, lst, thr, scn, database, time>>

DispShiftKeepsHead(write_list) == write_list

\* BusDispatcher.__move_forward on a write list
DispShift(write_list) ==
    [i \in 1..Len(write_list) |->
        IF i < Len(write_list) THEN write_list[i + 1] ELSE EmptySlot]

\* BusDispatcher.__get_source_target; ok = FALSE stands for ValueError
GetSourceTarget(encoded) ==
    LET Ids(r) ==
          [ok |-> r.ok, source_id |-> r.prefix.source_id, target_id |-> r.prefix.target_id]
        Parse(two) ==
          IF Len(two) = 2 THEN PrefixFromString(two[1])
          ELSE [ok |-> FALSE, prefix |-> NoPrefix]
    IN  CHOOSE st \in {Ids(r) : r \in {Parse(two) : two \in {SplitOnce(encoded, FILE_SEPARATOR)}}} :
            TRUE

\* a test that skips every entry
SkipsEveryKey(key, rec_key) == TRUE

\* the test of line 128: the entry is the one the frame was taken from
SameKey(key, rec_key) == key = rec_key

EligibleAnyTarget(key, target_id) == TRUE

\* the test of line 131, negated: the frame is addressed to this peer
Eligible(key, target_id) == target_id \in {0, ids[key]}

\* history: the frame in disp.msg is written into the read list of key `to`
Forwarded(to, target_id) ==
    [uid |-> disp.msg.uid, frag |-> disp.msg.frag, from |-> disp.rec_key,
     to |-> to, target_id |-> target_id, to_id |-> ids[to]]

\* BusDispatcher.stop (line 155), called once
DispStop ==
    /\ ~hist.dstop
    /\ disp' = [disp EXCEPT !.running = FALSE]
    /\ hist' = [hist EXCEPT !.dstop = TRUE]
    /\ UNCHANGED <<bus_datas, ids, rings, bus, lst, thr, scn, database, time>>

\* mainloop line 118, the first statement of the thread
DispEnter ==
    /\ disp.pc = "init"
    /\ disp' = [disp EXCEPT !.pc = "while", !.running = TRUE]
    /\ UNCHANGED <<bus_datas, ids, rings, bus, lst, thr, scn, database, time, hist>>

\* the test of `while self.__running` (line 119)
WhileTest(d) == d.running

\* the test of line 119: a new turn of the while begins (the for of line 120
\* makes its iterator), or mainloop returns
WhileStep(d) ==
    IF WhileTest(d) THEN [d EXCEPT !.pc = "outer", !.outer = DictIter(bus_datas)]
    ELSE [d EXCEPT !.pc = "returned"]

\* the first test of the while, after line 118
DispWhile ==
    /\ disp.pc = "while"
    /\ disp' = WhileStep(disp)
    /\ hist' = [hist EXCEPT !.again = @ \/ (hist.dstop /\ WhileTest(disp))]
    /\ UNCHANGED <<bus_datas, ids, rings, bus, lst, thr, scn, database, time>>

\* one step of `for rec_key, rec_bus_data in self.__bus_datas.items()` with
\* lines 121-124: RuntimeError when the dict changed size (it leaves mainloop),
\* the end of the for (sleep, then the test of the while), or the next entry
\* and the read of its slot 0
DispOuter ==
    /\ disp.pc = "outer"
    /\ IF Len(bus_datas) # disp.outer.used
       THEN /\ disp' = [disp EXCEPT !.pc = "crashed"]
            /\ UNCHANGED hist
       ELSE IF disp.outer.pos >= Len(bus_datas)
       THEN /\ disp' = WhileStep(disp)
            /\ hist' = [hist EXCEPT !.again = @ \/ (hist.dstop /\ WhileTest(disp))]
       ELSE LET e == bus_datas[disp.outer.pos + 1]
                msg == rings[e.h].w[1]
            IN  /\ disp' = [disp EXCEPT
                              !.outer.pos = @ + 1,
                              !.rec_key = e.key,
                              !.msg = msg,
                              !.pc = IF msg.s = EmptyString THEN "outer" ELSE "inner",
                              !.inner = DictIter(bus_datas)]
                /\ UNCHANGED hist
    /\ UNCHANGED <<bus_datas, ids, rings, bus, lst, thr, scn, database, time>>

\* one step of `for key, bus_data in self.__bus_datas.items()` (lines 127-144):
\* RuntimeError or the ValueError of the prefix go to the except of line 146,
\* which skips __move_forward; the end of the for goes to line 145
DispInner ==
    /\ disp.pc = "inner"
    /\ IF Len(bus_datas) # disp.inner.used
       THEN /\ disp' = [disp EXCEPT !.pc = "outer"]
            /\ UNCHANGED <<rings, hist>>
       ELSE IF disp.inner.pos >= Len(bus_datas)
       THEN /\ disp' = [disp EXCEPT !.pc = "move"]
            /\ UNCHANGED <<rings, hist>>
       ELSE LET Entry(e, st, i) ==
                IF SameKey(e.key, disp.rec_key)
                THEN /\ disp' = [disp EXCEPT !.inner.pos = @ + 1]
                     /\ UNCHANGED <<rings, hist>>
                ELSE IF ~st.ok
                THEN /\ disp' = [disp EXCEPT !.pc = "outer"]
                     /\ UNCHANGED <<rings, hist>>
                ELSE IF ~Eligible(e.key, st.target_id)
                THEN /\ disp' = [disp EXCEPT !.inner.pos = @ + 1]
                     /\ UNCHANGED <<rings, hist>>
                ELSE IF i = 0
                THEN /\ disp' = [disp EXCEPT !.inner.pos = @ + 1]
                     /\ hist' = [hist EXCEPT
                                  !.sat = TRUE,
                                  !.full = @ \cup {[uid |-> disp.msg.uid,
                                                    frag |-> disp.msg.frag, to |-> e.key]}]
                     /\ UNCHANGED rings
                ELSE /\ disp' = [disp EXCEPT !.inner.pos = @ + 1]
                     /\ rings' = [rings EXCEPT ![e.h].r[i] = disp.msg]
                     /\ hist' = [hist EXCEPT
                                  !.fwd = @ \cup {Forwarded(e.key, st.target_id)},
                                  !.dup = IF Forwarded(e.key, st.target_id) \in hist.fwd
                                          THEN @ \cup {Forwarded(e.key, st.target_id)}
                                          ELSE @]
            IN  Entry(bus_datas[disp.inner.pos + 1], GetSourceTarget(disp.msg.s),
                      FirstEmpty(rings[bus_datas[disp.inner.pos + 1].h].r))
    /\ UNCHANGED <<bus_datas, ids, bus, lst, thr, scn, database, time>>

\* line 145: self.__move_forward(rec_key)
DispMove ==
    /\ disp.pc = "move"
    /\ LET i == DictIndex(bus_datas, disp.rec_key) IN
       IF i = 0
       THEN UNCHANGED rings
       ELSE rings' = [rings EXCEPT ![bus_datas[i].h].w = DispShift(@)]
    /\ disp' = [disp EXCEPT !.pc = "outer"]
    /\ UNCHANGED <<bus_datas, ids, bus, lst, thr, scn, database, time, hist>>

(***************************************************************************)
(* Bus (bus.py): construction, subscriptions, sending.                     *)
(***************************************************************************)
NoResult == [set |-> FALSE, v |-> NoArgs]
NoSpawn == [uid |-> 0, frag |-> 0, event_id |-> -1, args |-> NoArgs, source_id |-> -1]

IdleThread(key) ==
    [pc |-> "idle", bus |-> key, event |-> NoEvent, to |-> 0, parts |-> <<>>,
     i |-> 0, mid |-> 0, uid |-> 0, timeout |-> 0, result |-> NoResult,
     spawn |-> NoSpawn]

NoSubscribers == [id \in {} |-> <<>>]

\* the Bus object before Bus.__init__ ran (h = 0) and after it
NoBus == [h |-> 0, id |-> 0, listen |-> FALSE, subscribers |-> NoSubscribers]
NewBus(h, id) == [h |-> h, id |-> id, listen |-> FALSE, subscribers |-> NoSubscribers]

\* the locals of Bus.__read_incoming; bound = FALSE: not assigned yet
NewListener ==
    [pc |-> "off", running |-> 0, raw |-> EmptySlot, prefix |-> NoPrefix,
     msg |-> [bound |-> FALSE, s |-> <<>>, uid |-> 0],
     event |-> [bound |-> FALSE, e |-> NoEvent],
     args |-> [bound |-> FALSE, a |-> NoArgs],
     buffer |-> [m \in {} |-> [remaining |-> 0, data |-> <<>>, uid |-> 0]]]

\* Bus.__init__(data) for the BusData the dispatcher holds for key
BusInit(key) ==
    /\ bus[key].h = 0
    /\ DictIndex(bus_datas, key) # 0
    /\ bus' = [bus EXCEPT ![key] = NewBus(bus_datas[DictIndex(bus_datas, key)].h, ids[key])]
    /\ UNCHANGED <<bus_datas, ids, rings, disp, lst, thr, scn, database, time, hist>>

\* Bus.get_subscribers
GetSubscribers(b, event_id) ==
    IF event_id \in DOMAIN b.subscribers THEN b.subscribers[event_id] ELSE <<>>

\* the part of a type designator after its last dot, in lower case
\* (__get_class_name and str.lower), for the designators of the scenarios
LowerClassName(a) ==
    IF a \in {"str", "Str", "builtins.str"} THEN "str"
    ELSE IF a \in {"datetime", "datetime.datetime"} THEN "datetime"
    ELSE IF a \in {"None", "NoneType"} THEN "none"
    ELSE a

\* is_types_equals (utils/misc.py) for designators without brackets
IsTypesEquals(a, b) == a = b \/ LowerClassName(a) = LowerClassName(b)

\* Bus.__check_callback: annotations maps the annotated parameter names,
\* and "return", to the __name__ of the annotation; FALSE stands for the
\* ValueError
CheckCallback(event, annotations) ==
    LET return_str == IF "return" \in DOMAIN annotations THEN annotations["return"]
                      ELSE "None"
    IN  /\ IsTypesEquals(return_str, event.return_type)
        /\ \A i \in 1..Len(event.args) :
              /\ event.args[i].name \in DOMAIN annotations
              /\ IsTypesEquals(annotations[event.args[i].name], event.args[i].type)
        /\ \A arg_name \in DOMAIN annotations \ {"return"} :
              /\ \E i \in 1..Len(event.args) : event.args[i].name = arg_name
              /\ \A i \in 1..Len(event.args) :
                    event.args[i].name = arg_name => annotations[arg_name] = event.args[i].type

\* a registration that puts the callback in front
RegisterInFront(subscribers, event, callback) ==
    [id \in DOMAIN subscribers \cup {event.id} |->
        IF id = event.id
        THEN <<callback>> \o (IF id \in DOMAIN subscribers THEN subscribers[id] ELSE <<>>)
        ELSE subscribers[id]]

\* Bus.__register
Register(subscribers, event, callback) ==
    [id \in DOMAIN subscribers \cup {event.id} |->
        IF id = event.id
        THEN Append(IF id \in DOMAIN subscribers THEN subscribers[id] ELSE <<>>, callback)
        ELSE subscribers[id]]

\* list.remove(x): the first occurrence
RemoveFirst(list, x) ==
    LET hit == {i \in 1..Len(list) : list[i] = x} IN
    IF hit = {} THEN list
    ELSE LET i == CHOOSE a \in hit : \A b \in hit : a <= b IN
         SubSeq(list, 1, i - 1) \o SubSeq(list, i + 1, Len(list))

UnregisterKeeps(subscribers, event, callback) == subscribers

\* Bus.unregister
Unregister(subscribers, event, callback) ==
    IF event.id \in DOMAIN subscribers
    THEN [subscribers EXCEPT ![event.id] = RemoveFirst(@, callback)]
    ELSE subscribers

\* the slices of Bus.__send line 157: s[i:i + n] for i in range(0, len(s), n)
Chunks(s, n) ==
    [k \in 1..((Len(s) + n - 1) \div n) |->
        SubSeq(s, (k - 1) * n + 1, IF k * n < Len(s) THEN k * n ELSE Len(s))]

\* Bus.__send lines 153-158
Parts(encoded) ==
    IF Len(encoded) + PrefixLength <= MaxStringLength THEN <<encoded>>
    ELSE Chunks(encoded, MaxStringLength - PrefixLength)

\* the frame Bus.__write builds (lines 122-127)
Frame(source_id, to, fragment_number, fragment_count, msg_id, raw_msg) ==
    AddPrefix(raw_msg, BusMessagePrefix(source_id, to, fragment_number,
                                        fragment_count, msg_id))

BusWriteOverwrites(write_list, slot) ==
    IF Len(slot.s) > MaxStringLength THEN [ok |-> FALSE, list |-> write_list]
    ELSE IF FirstEmpty(write_list) = 0
    THEN [ok |-> TRUE, list |-> [write_list EXCEPT ![Len(write_list)] = slot]]
    ELSE [ok |-> TRUE, list |-> [write_list EXCEPT ![FirstEmpty(write_list)] = slot]]

\* Bus.__write lines 130-139: ok = FALSE stands for the ValueError (frame too
\* long, or no free position), which leaves the write list as it was
BusWrite(write_list, slot) ==
    IF Len(slot.s) > MaxStringLength \/ FirstEmpty(write_list) = 0
    THEN [ok |-> FALSE, list |-> write_list]
    ELSE [ok |-> TRUE, list |-> [write_list EXCEPT ![FirstEmpty(write_list)] = slot]]

\* the thread after the first lines of Bus.__send (encode, split, message id)
Sending(t, key, event, to, timeout, encoded, mid, uid, spawn) ==
    [pc |-> "write", bus |-> key, event |-> event, to |-> to,
     parts |-> Parts(encoded), i |-> 1, mid |-> mid, uid |-> uid,
     timeout |-> timeout, result |-> NoResult, spawn |-> spawn]

\* the record of one __send call in the history
SentRecord(t, key, event, kwargs, to, encoded, req) ==
    [thread |-> t, bus |-> key, event_id |-> event.id, kwargs |-> kwargs, to |-> to,
     nparts |-> Len(Parts(encoded)), req |-> req, outcome |-> "pending",
     result |-> NoResult, answered |-> FALSE, woken |-> FALSE,
     encoded |-> encoded, too_long |-> FALSE]

\* history: a frame written into a write ring; its text is kept in the
\* scenario that looks at the frames of a message
Written(uid, frag, s) ==
    [uid |-> uid, frag |-> frag, s |-> IF scn.name = "frag" THEN s ELSE <<>>]

\* the values datetime.now() returns
Clock == {PyDatetime(7, 0), PyDatetime(8, 5)}

\* Bus.__send lines 142-145: a missing timestamp is filled in
FillTimestamp(event, kwargs, now) ==
    IF /\ "timestamp" \notin DOMAIN kwargs
       /\ \E i \in 1..Len(event.args) :
             event.args[i].name = "timestamp" /\ event.args[i].type = "datetime"
    THEN [n \in DOMAIN kwargs \cup {"timestamp"} |->
            IF n = "timestamp" THEN now ELSE kwargs[n]]
    ELSE kwargs

\* Bus.trigger(event, timeout, **kwargs) up to the loop of line 162; an
\* error raised by Event.encode (line 147) ends the call
Trigger(t) ==
    /\ t \in AppThreads
    /\ thr[t].pc = "idle"
    /\ thr[t].bus \in Keys
    /\ bus[thr[t].bus].h # 0
    /\ hist.sends < scn.max_sends
    /\ \E call \in scn.menu, mid \in scn.mids, now \in Clock :
         LET enc == EventEncode(call.event, FillTimestamp(call.event, call.kwargs, now))
             uid == Len(hist.sent) + 1
         IN  IF enc.ok
             THEN /\ thr' = [thr EXCEPT ![t] =
                              Sending(t, thr[t].bus, call.event, 0, call.timeout,
                                      enc.s, mid, uid, NoSpawn)]
                  /\ hist' = [hist EXCEPT
                               !.sends = @ + 1,
                               !.sent = Append(@, SentRecord(t, thr[t].bus, call.event,
                                                             call.kwargs, 0, enc.s, 0))]
             ELSE /\ thr' = thr
                  /\ hist' = [hist EXCEPT
                               !.sends = @ + 1,
                               !.sent = Append(@, [SentRecord(t, thr[t].bus, call.event,
                                                              call.kwargs, 0, <<>>, 0)
                                                   EXCEPT !.outcome = "encode_raised",
                                                          !.nparts = 0])]
    /\ UNCHANGED <<bus_datas, ids, rings, disp, bus, lst, scn, database, time>>

\* one turn of the loop of Bus.__send line 162: one Bus.__write.  After the
\* last fragment the call returns (no return type) or enters wait_for.
SendWrite(t) ==
    /\ thr[t].pc = "write"
    /\ LET me == thr[t]
           b == bus[me.bus]
           slot == [s |-> Frame(b.id, me.to, me.i - 1, Len(me.parts), me.mid,
                                me.parts[me.i]),
                    uid |-> me.uid, frag |-> me.i]
           w == BusWrite(rings[b.h].w, slot)
       IN  IF ~w.ok
           THEN /\ thr' = [thr EXCEPT ![t] = IdleThread(IF t \in AppThreads THEN me.bus ELSE "-")]
                /\ hist' = [hist EXCEPT
                             !.sent[me.uid].outcome = "raised",
                             !.sent[me.uid].too_long = Len(slot.s) > MaxStringLength,
                             !.sat = @ \/ Len(slot.s) <= MaxStringLength]
                /\ UNCHANGED rings
           ELSE /\ rings' = [rings EXCEPT ![b.h].w = w.list]
                /\ IF me.i < Len(me.parts)
                   THEN /\ thr' = [thr EXCEPT ![t].i = @ + 1]
                        /\ hist' = [hist EXCEPT !.wrote[me.bus] =
                                       Append(@, Written(me.uid, me.i, slot.s))]
                   ELSE IF me.event.return_type # "None"
                   THEN /\ thr' = [thr EXCEPT ![t].pc = "wf_reg"]
                        /\ hist' = [hist EXCEPT !.wrote[me.bus] =
                                       Append(@, Written(me.uid, me.i, slot.s))]
                   ELSE /\ thr' = [thr EXCEPT ![t] =
                                     IdleThread(IF t \in AppThreads THEN me.bus ELSE "-")]
                        /\ hist' = [hist EXCEPT
                                     !.wrote[me.bus] =
                                        Append(@, Written(me.uid, me.i, slot.s)),
                                     !.sent[me.uid].outcome = "returned"]
    /\ UNCHANGED <<bus_datas, ids, disp, bus, lst, scn, database, time>>

(***************************************************************************)
(* Bus.wait_for (bus.py lines 255-275), as called by Bus.__send line 166.  *)
(***************************************************************************)
\* the closure wait_for_callback of the wait_for call running in thread t
WaitCallback(t) == [kind |-> "wait", name |-> t]
UserCallback(name) == [kind |-> "user", name |-> name]

\* line 265: self.__register(event, wait_for_callback)
WaitRegister(t) ==
    /\ thr[t].pc = "wf_reg"
    /\ bus' = [bus EXCEPT ![thr[t].bus].subscribers =
                 Register(@, ReturnEvent(thr[t].event).event, WaitCallback(t))]
    /\ thr' = [thr EXCEPT ![t].pc = "wf_poll"]
    /\ UNCHANGED <<bus_datas, ids, rings, disp, lst, scn, database, time, hist>>

\* history: a response to the request uid has been taken by the listener of
\* the requesting Bus and dropped for want of a subscriber, or its worker
\* has run
Answered(key, uid) ==
    \E j \in 1..Len(hist.sent) :
        /\ hist.sent[j].req = uid
        /\ \/ \E i \in 1..Len(hist.dlog[key]) :
                  hist.dlog[key][i].muid = j /\ ~hist.dlog[key][i].spawned
           \/ \E i \in 1..Len(hist.execs) :
                  hist.execs[i].bus = key /\ hist.execs[i].spawn.uid = j

\* lines 268-272: the loop ends when the callback has stored a result
WaitReceived(t) ==
    /\ thr[t].pc = "wf_poll"
    /\ thr[t].result.set
    /\ thr' = [thr EXCEPT ![t].pc = "wf_unreg"]
    /\ UNCHANGED <<bus_datas, ids, rings, disp, bus, lst, scn, database, time, hist>>

\* lines 269-271: the loop ends when the timeout (> 0) has elapsed; the
\* elapsed time is not modelled, the timeout may fire at any turn
WaitTimeout(t) ==
    /\ thr[t].pc = "wf_poll"
    /\ ~thr[t].result.set
    /\ thr[t].timeout > 0
    /\ thr' = [thr EXCEPT ![t].pc = "wf_unreg"]
    /\ hist' = [hist EXCEPT !.sent[thr[t].uid].answered = Answered(thr[t].bus, thr[t].uid)]
    /\ UNCHANGED <<bus_datas, ids, rings, disp, bus, lst, scn, database, time>>

\* lines 274-275 and Bus.__send lines 167-169: unregister, return the result
WaitUnregister(t) ==
    /\ thr[t].pc = "wf_unreg"
    /\ LET me == thr[t]
           res == me.result
       IN  /\ bus' = [bus EXCEPT ![me.bus].subscribers =
                        Unregister(@, ReturnEvent(me.event).event, WaitCallback(t))]
           /\ thr' = [thr EXCEPT ![t] = IdleThread(me.bus)]
           /\ hist' = [hist EXCEPT
                        !.sent[me.uid].outcome =
                           IF res.set /\ "result" \notin DOMAIN res.v
                           THEN "raised" ELSE "returned",
                        !.sent[me.uid].result =
                           IF res.set /\ "result" \in DOMAIN res.v
                           THEN [set |-> TRUE, v |-> res.v["result"]]
                           ELSE [set |-> FALSE, v |-> <<>>]]
    /\ UNCHANGED <<bus_datas, ids, rings, disp, lst, scn, database, time>>

(***************************************************************************)
(* The listener thread: Bus.start and Bus.__read_incoming.                 *)
(***************************************************************************)
\* threading.Thread of Bus.__init__ line 35: is_alive()
IsAlive(l) == l.pc \in {"read", "proc"}

\* a Thread that starts whenever start() is called
ThreadStartAgain(l) == [ok |-> TRUE, l |-> [l EXCEPT !.pc = "read", !.running = @ + 1]]

\* self.__thread.start() (line 282) on the one Thread object made in
\* Bus.__init__: a Thread starts once, a later start() raises RuntimeError
ThreadStart(l) ==
    IF l.pc # "off" THEN [ok |-> FALSE, l |-> l]
    ELSE [ok |-> TRUE, l |-> [l EXCEPT !.pc = "read", !.running = @ + 1]]

\* a finished call of start() or stop() in the history of the Bus: n, its
\* rank among the calls by their beginning; seen, the number of calls that
\* had begun when it returned; at, the number of messages the listener had
\* decoded by then
Life(t, op, how, n, seen) ==
    [thread |-> t, op |-> op, how |-> how, n |-> n, seen |-> seen,
     at |-> Len(hist.dlog[thr[t].bus])]

\* Bus.start line 279: the test of the flag and of is_alive(); the else
\* branch (line 290) only logs
StartCheck(t) ==
    /\ t \in AppThreads
    /\ thr[t].pc = "idle"
    /\ thr[t].bus \in Keys
    /\ bus[thr[t].bus].h # 0
    /\ hist.calls < LifeCalls
    /\ IF ~bus[thr[t].bus].listen /\ ~IsAlive(lst[thr[t].bus])
       THEN /\ thr' = [thr EXCEPT ![t].pc = "start_set"]
            /\ hist' = [hist EXCEPT !.calls = @ + 1, !.n[t] = hist.calls + 1]
       ELSE /\ hist' = [hist EXCEPT !.calls = @ + 1,
                                    !.life[thr[t].bus] =
                                       Append(@, Life(t, "start", "noop", hist.calls + 1,
                                                       hist.calls + 1))]
            /\ UNCHANGED thr
    /\ UNCHANGED <<bus_datas, ids, rings, disp, bus, lst, scn, database, time>>

\* Bus.start line 280
StartSet(t) ==
    /\ thr[t].pc = "start_set"
    /\ bus' = [bus EXCEPT ![thr[t].bus].listen = TRUE]
    /\ thr' = [thr EXCEPT ![t].pc = "start_thread"]
    /\ UNCHANGED <<bus_datas, ids, rings, disp, lst, scn, database, time, hist>>

\* Bus.start lines 281-288: thread.start(), the RuntimeError being logged
StartThread(t) ==
    /\ thr[t].pc = "start_thread"
    /\ LET Started(r) ==
             /\ lst' = [lst EXCEPT ![thr[t].bus] = r.l]
             /\ hist' = [hist EXCEPT !.life[thr[t].bus] =
                           Append(@, Life(t, "start", IF r.ok THEN "started" ELSE "failed",
                                          hist.n[t], hist.calls))]
       IN  Started(ThreadStart(lst[thr[t].bus]))
    /\ thr' = [thr EXCEPT ![t].pc = "idle"]
    /\ UNCHANGED <<bus_datas, ids, rings, disp, bus, scn, database, time>>

\* Bus.stop lines 293-294, or the else branch (line 297), which only logs
StopBegin(t) ==
    /\ t \in AppThreads
    /\ thr[t].pc = "idle"
    /\ thr[t].bus \in Keys
    /\ bus[thr[t].bus].h # 0
    /\ hist.calls < LifeCalls
    /\ IF bus[thr[t].bus].listen
       THEN /\ bus' = [bus EXCEPT ![thr[t].bus].listen = FALSE]
            /\ thr' = [thr EXCEPT ![t].pc = "stop_join"]
            /\ hist' = [hist EXCEPT !.calls = @ + 1, !.n[t] = hist.calls + 1,
                                    !.mark[t] = Len(hist.dlog[thr[t].bus])]
       ELSE /\ hist' = [hist EXCEPT !.calls = @ + 1,
                                    !.life[thr[t].bus] =
                                       Append(@, Life(t, "stop", "noop", hist.calls + 1,
                                                       hist.calls + 1))]
            /\ UNCHANGED <<bus, thr>>
    /\ UNCHANGED <<bus_datas, ids, rings, disp, lst, scn, database, time>>

\* Bus.stop line 295: join() returns when the thread has ended, and raises
\* RuntimeError for a thread that was never started
StopJoin(t) ==
    /\ thr[t].pc = "stop_join"
    /\ ~IsAlive(lst[thr[t].bus])
    /\ thr' = [thr EXCEPT ![t].pc = "idle"]
    /\ hist' = [hist EXCEPT !.life[thr[t].bus] =
                  Append(@, Life(t, "stop", IF lst[thr[t].bus].pc = "off"
                                            THEN "join_raised" ELSE "joined",
                                 hist.n[t], hist.calls))]
    /\ UNCHANGED <<bus_datas, ids, rings, disp, bus, lst, scn, database, time>>

\* Bus.__read_incoming line 188 with the flag cleared, line 244: the thread
\* ends
ListenerExit(key) ==
    /\ lst[key].pc = "read"
    /\ ~bus[key].listen
    /\ lst' = [lst EXCEPT ![key].pc = "done", ![key].running = @ - 1]
    /\ UNCHANGED <<bus_datas, ids, rings, disp, bus, thr, scn, database, time, hist>>

\* Bus.__move_forward lines 48-50: turn i of the loop, the clearing of the
\* last slot being inside the loop
RECURSIVE BusShiftLoop(_, _)
BusShiftLoop(list, i) ==
    IF i > Len(list) - 1 THEN list
    ELSE BusShiftLoop([[list EXCEPT ![i] = list[i + 1]] EXCEPT ![Len(list)] = EmptySlot],
                      i + 1)

BusShift(read_list) == BusShiftLoop(read_list, 1)

\* lines 196-219 for the frame in l.raw: what the listener does next
\* ("dead": an exception left the loop; "continue"; "fall": on to line 222)
Reassemble(l, b) ==
    LET Next(rp, p, l1) ==
          IF ~rp.ok THEN [next |-> "dead", l |-> l]
          ELSE IF p.target_id \notin {0, b.id} THEN [next |-> "continue", l |-> l1]
          ELSE IF p.fragment_count = 1
          THEN [next |-> "fall",
                l |-> [l1 EXCEPT !.msg = [bound |-> TRUE, s |-> rp.data, uid |-> l.raw.uid]]]
          ELSE IF p.message_id \notin DOMAIN l.buffer
          THEN IF p.fragment_number # 0 THEN [next |-> "continue", l |-> l1]
               ELSE [next |-> "fall",
                     l |-> [l1 EXCEPT !.buffer =
                              [m \in DOMAIN l.buffer \cup {p.message_id} |->
                                 IF m = p.message_id
                                 THEN [remaining |-> p.fragment_count - 1,
                                       data |-> rp.data, uid |-> l.raw.uid]
                                 ELSE l.buffer[m]]]]
          ELSE IF l.buffer[p.message_id].remaining - 1 = 0
          THEN [next |-> "fall",
                l |-> [l1 EXCEPT
                         !.buffer = [m \in DOMAIN l.buffer \ {p.message_id} |->
                                       l.buffer[m]],
                         !.msg = [bound |-> TRUE,
                                  s |-> l.buffer[p.message_id].data \o rp.data,
                                  uid |-> l.buffer[p.message_id].uid]]]
          ELSE [next |-> "continue",
                l |-> [l1 EXCEPT !.buffer[p.message_id] =
                         [remaining |-> @.remaining - 1, data |-> @.data \o rp.data,
                          uid |-> @.uid]]]
        Read(rp) == Next(rp, rp.prefix, [l EXCEPT !.prefix = rp.prefix])
    IN  Read(ReadPrefix(l.raw.s))

\* lines 222-243 with the locals l: "dead" (an unbound local is read),
\* "skip" (nothing decoded), "failed" (decode raised, logged), "nosub",
\* "spawn" (a worker thread is started)
Dispatch(l, b) ==
    LET Decoded(d) ==
          IF ~d.ok
          THEN [next |-> IF l.event.bound /\ l.args.bound THEN "failed" ELSE "dead",
                l |-> l]
          ELSE [next |-> IF d.event.id \in DOMAIN b.subscribers THEN "spawn" ELSE "nosub",
                l |-> [l EXCEPT !.event = [bound |-> TRUE, e |-> d.event],
                                !.args = [bound |-> TRUE, a |-> d.args]]]
    IN  IF ~l.msg.bound THEN [next |-> "dead", l |-> l]
        ELSE IF l.msg.s = EmptyString THEN [next |-> "skip", l |-> l]
        ELSE Decoded(EventDecode(l.msg.s))

WorkerOrder == <<"w1", "w2", "w3">>

FreeWorker ==
    LET free == {i \in 1..Len(WorkerOrder) : thr[WorkerOrder[i]].pc = "idle"} IN
    IF free = {} THEN "-"
    ELSE WorkerOrder[CHOOSE i \in free : \A j \in free : i <= j]

\* one turn of the loop of Bus.__read_incoming that finds a frame in slot 0
\* (lines 188-243): the read under the lock, __move_forward, the rest.  The
\* frame read is the one __move_forward shifts out, whatever is written into
\* the later slots in between, so the turn is one step.
ListenerTake(key) ==
    /\ lst[key].pc = "read"
    /\ bus[key].listen
    /\ rings[bus[key].h].r[1].s # EmptyString
    /\ rings' = [rings EXCEPT ![bus[key].h].r = BusShift(@)]
    /\ LET Entry(raw, p, l, spawned) ==
             [uid |-> raw.uid, frag |-> raw.frag,
              fragment_number |-> p.fragment_number,
              fragment_count |-> p.fragment_count,
              source_id |-> p.source_id, muid |-> l.msg.uid,
              event_id |-> l.event.e.id, args |-> l.args.a, spawned |-> spawned]
           Rest(raw, ra, di) ==
             IF ra.next = "dead" \/ (ra.next = "fall" /\ di.next = "dead")
             THEN /\ lst' = [lst EXCEPT ![key] =
                               [(IF ra.next = "dead" THEN ra.l ELSE di.l) EXCEPT
                                  !.pc = "dead", !.running = @ - 1]]
                  /\ UNCHANGED <<thr, hist>>
             ELSE IF ra.next = "continue"
             THEN /\ lst' = [lst EXCEPT ![key] = ra.l]
                  /\ UNCHANGED <<thr, hist>>
             ELSE IF di.next \in {"skip", "failed"}
             THEN /\ lst' = [lst EXCEPT ![key] = di.l]
                  /\ UNCHANGED <<thr, hist>>
             ELSE IF di.next = "nosub"
             THEN /\ lst' = [lst EXCEPT ![key] = di.l]
                  /\ hist' = [hist EXCEPT !.dlog[key] =
                                Append(@, Entry(raw, ra.l.prefix, di.l, FALSE))]
                  /\ UNCHANGED thr
             ELSE /\ FreeWorker # "-"
                  /\ lst' = [lst EXCEPT ![key] = di.l]
                  /\ thr' = [thr EXCEPT ![FreeWorker] =
                               [IdleThread(key) EXCEPT
                                  !.pc = "exec",
                                  !.spawn = [uid |-> di.l.msg.uid, frag |-> raw.frag,
                                             event_id |-> di.l.event.e.id,
                                             args |-> di.l.args.a,
                                             source_id |-> ra.l.prefix.source_id]]]
                  /\ hist' = [hist EXCEPT !.dlog[key] =
                                Append(@, Entry(raw, ra.l.prefix, di.l, TRUE))]
           Process(raw, ra) == Rest(raw, ra, Dispatch(ra.l, bus[key]))
           Turn(raw) == Process(raw, Reassemble([lst[key] EXCEPT !.raw = raw], bus[key]))
       IN  Turn(rings[bus[key].h].r[1])
    /\ UNCHANGED <<bus_datas, ids, disp, bus, scn, database, time>>

\* lines 188-191 when slot 0 holds the empty string: the read lock is
\* released before __move_forward takes it again
ListenerReadEmpty(key) ==
    /\ lst[key].pc = "read"
    /\ bus[key].listen
    /\ rings[bus[key].h].r[1].s = EmptyString
    /\ lst' = [lst EXCEPT ![key].raw = rings[bus[key].h].r[1], ![key].pc = "proc"]
    /\ UNCHANGED <<bus_datas, ids, rings, disp, bus, thr, scn, database, time, hist>>

\* lines 192-195 after the read of an empty slot 0: __move_forward, sleep
ListenerShiftEmpty(key) ==
    /\ lst[key].pc = "proc"
    /\ rings' = [rings EXCEPT ![bus[key].h].r = BusShift(@)]
    /\ lst' = [lst EXCEPT ![key].pc = "read"]
    /\ hist' = [hist EXCEPT !.lost = @ \cup
                  {[uid |-> rings[bus[key].h].r[1].uid, frag |-> rings[bus[key].h].r[1].frag,
                    to |-> key] : x \in IF rings[bus[key].h].r[1].s = EmptyString
                                        THEN {} ELSE {1}}]
    /\ UNCHANGED <<bus_datas, ids, disp, bus, thr, scn, database, time>>

(***************************************************************************)
(* Callback workers: the closure `a` of Bus.__read_incoming (lines         *)
(* 229-237) and Bus.__exec_callback.                                       *)
(***************************************************************************)
Str_s == <<115>>
Str_t == <<116>>
Str_r == <<114>>
Str_q == <<113>>
Str_tt == <<116, 116>>

\* the application callbacks the scenarios register (the shape of
\* BaseMcServer.__on_ping: answer for one's own server name, else None);
\* raised = TRUE stands for the TypeError of a call with the wrong keywords
CallUser(name, args) ==
    IF name = "on_ping_t"
    THEN IF DOMAIN args # {"server_name"} THEN [raised |-> TRUE, set |-> FALSE, v |-> <<>>]
         ELSE IF args["server_name"] = Str_t
         THEN [raised |-> FALSE, set |-> TRUE, v |-> Str_q]
         ELSE [raised |-> FALSE, set |-> FALSE, v |-> <<>>]
    ELSE IF name = "on_ping_s"
    THEN IF DOMAIN args # {"server_name"} THEN [raised |-> TRUE, set |-> FALSE, v |-> <<>>]
         ELSE IF args["server_name"] = Str_s
         THEN [raised |-> FALSE, set |-> TRUE, v |-> Str_r]
         ELSE [raised |-> FALSE, set |-> FALSE, v |-> <<>>]
    ELSE IF name = "on_ping_any"
    THEN IF DOMAIN args # {"server_name"} THEN [raised |-> TRUE, set |-> FALSE, v |-> <<>>]
         ELSE IF args["server_name"] \in {Str_s, Str_t}
         THEN [raised |-> FALSE, set |-> TRUE, v |-> Str_q]
         ELSE [raised |-> FALSE, set |-> FALSE, v |-> <<>>]
    ELSE IF DOMAIN args # {"text"} THEN [raised |-> TRUE, set |-> FALSE, v |-> <<>>]
         ELSE [raised |-> FALSE, set |-> FALSE, v |-> <<>>]

NoRun == [invoked |-> <<>>, woken |-> {}, reply |-> [set |-> FALSE, v |-> <<>>],
          raised |-> FALSE]

\* a loop that goes on to the next callback after one has raised
RECURSIVE RunCallbacksGoesOn(_, _, _, _)
RunCallbacksGoesOn(callbacks, event, args, acc) ==
    IF callbacks = <<>> THEN acc
    ELSE LET callback == Head(callbacks)
             acc1 == [acc EXCEPT !.invoked = Append(@, callback)]
         IN  IF callback.kind = "wait"
             THEN RunCallbacksGoesOn(Tail(callbacks), event, args,
                                     [acc1 EXCEPT !.woken = @ \cup {callback.name}])
             ELSE LET result == CallUser(callback.name, args) IN
                  IF result.raised
                  THEN RunCallbacksGoesOn(Tail(callbacks), event, args,
                                          [acc1 EXCEPT !.raised = TRUE])
                  ELSE IF result.set /\ event.return_type # "None"
                  THEN [acc1 EXCEPT !.reply = [set |-> TRUE, v |-> result.v]]
                  ELSE RunCallbacksGoesOn(Tail(callbacks), event, args, acc1)

\* the loop of Bus.__exec_callback (lines 247-253)
RECURSIVE RunCallbacks(_, _, _, _)
RunCallbacks(callbacks, event, args, acc) ==
    IF callbacks = <<>> THEN acc
    ELSE LET callback == Head(callbacks)
             acc1 == [acc EXCEPT !.invoked = Append(@, callback)]
         IN  IF callback.kind = "wait"
             THEN RunCallbacks(Tail(callbacks), event, args,
                               [acc1 EXCEPT !.woken = @ \cup {callback.name}])
             ELSE LET result == CallUser(callback.name, args) IN
                  IF result.raised THEN [acc1 EXCEPT !.raised = TRUE]
                  ELSE IF result.set /\ event.return_type # "None"
                  THEN [acc1 EXCEPT !.reply = [set |-> TRUE, v |-> result.v]]
                  ELSE RunCallbacks(Tail(callbacks), event, args, acc1)

\* ExecCallback(event, source_id, args): what self.__exec_callback does with
\* the values the closure passes it
ExecCallback(b, event, args) ==
    IF event.id \notin DOMAIN b.subscribers THEN [NoRun EXCEPT !.raised = TRUE]
    ELSE RunCallbacks(b.subscribers[event.id], event, args, NoRun)

\* the values the closure `a` passes to __exec_callback (line 231): the
\* closure holds the listener's variables event, prefix and args, and reads
\* them when the worker thread runs
ClosureValues(w) ==
    LET l == lst[thr[w].bus] IN
    [event |-> l.event.e, source_id |-> l.prefix.source_id, args |-> l.args.a]

\* the worker thread: the call of line 231 up to the loop of Bus.__send
WorkerExec(w) ==
    /\ w \in WorkerThreads
    /\ thr[w].pc = "exec"
    /\ LET me == thr[w]
           b == bus[me.bus]
           c == ClosureValues(w)
           run == ExecCallback(b, c.event, c.args)
           ret == ReturnEvent(c.event)
           kwargs == [n \in {"result"} |-> run.reply.v]
           enc == IF ret.ok THEN EventEncode(ret.event, kwargs)
                  ELSE [ok |-> FALSE, s |-> <<>>]
           uid == Len(hist.sent) + 1
           woken(t) == /\ t \in run.woken
                       /\ thr[t].pc \in {"wf_poll", "wf_unreg"}
           exec == [spawn |-> me.spawn, bus |-> me.bus, event_id |-> c.event.id,
                    args |-> c.args, source_id |-> c.source_id,
                    invoked |-> run.invoked, reply |-> run.reply,
                    raised |-> run.raised]
       IN  \E mid \in scn.mids :
             /\ (~(run.reply.set /\ enc.ok) => mid = CHOOSE m \in scn.mids : TRUE)
             /\ thr' = [t \in Threads |->
                          IF t = w
                          THEN IF run.reply.set /\ enc.ok
                               THEN Sending(w, me.bus, ret.event, c.source_id, 0, enc.s,
                                            mid, uid, me.spawn)
                               ELSE IdleThread("-")
                          ELSE IF woken(t)
                          THEN [thr[t] EXCEPT !.result = [set |-> TRUE, v |-> c.args]]
                          ELSE thr[t]]
             /\ hist' = [hist EXCEPT
                          !.execs = Append(@, exec),
                          !.sent = LET marked ==
                                         [j \in 1..Len(hist.sent) |->
                                            IF \E t \in AppThreads : woken(t) /\ thr[t].uid = j
                                            THEN [hist.sent[j] EXCEPT !.woken = TRUE]
                                            ELSE hist.sent[j]]
                                   IN  IF run.reply.set /\ enc.ok
                                       THEN Append(marked,
                                                   SentRecord(w, me.bus, ret.event, kwargs,
                                                              c.source_id, enc.s, me.spawn.uid))
                                       ELSE marked]
    /\ UNCHANGED <<bus_datas, ids, rings, disp, bus, lst, scn, database, time>>

(***************************************************************************)
(* Initial states and specifications.                                      *)
(***************************************************************************)
Call(event, kwargs, timeout) == [event |-> event, kwargs |-> kwargs, timeout |-> timeout]

\* the default timeout of Bus.trigger
DefaultTimeout == 5

PingCall(name) == Call(PING, [n \in {"server_name"} |-> name], DefaultTimeout)
MessageCall(text) == Call(MESSAGE, [n \in {"text"} |-> text], DefaultTimeout)

InitHist ==
    [regs |-> 0, sends |-> 0, sent |-> <<>>, fwd |-> {}, dup |-> {},
     lost |-> {}, sat |-> FALSE, calls |-> 0,
     life |-> [k \in Keys |-> <<>>], mark |-> [t \in AppThreads |-> 0],
     n |-> [t \in AppThreads |-> 0],
     got |-> [k \in Keys |-> <<>>], rel |-> [k \in Keys |-> 0],
     dstop |-> FALSE, again |-> FALSE, full |-> {}, shut |-> "no", codec |-> <<>>, loaded |-> <<>>, reglog |-> <<>>,
     http |-> [route |-> "-", req |-> <<>>, status |-> 0, message |-> "", token |-> 0,
               seq |-> 0],
     issued |-> <<>>, out |-> {}, popped |-> <<>>, core |-> "started",
     wrote |-> [k \in Keys |-> <<>>], dlog |-> [k \in Keys |-> <<>>], execs |-> <<>>]

InitDisp ==
    [pc |-> "init", running |-> FALSE, outer |-> DictIter(<<>>), inner |-> DictIter(<<>>),
     rec_key |-> "-", msg |-> EmptySlot]

\* the state after BusDispatcher(), get_bus_data("A"), get_bus_data("B"), a Bus
\* built on each handle, the register calls of its application and start()
\* on the buses of `started`: idsA and idsB are the ids the dispatcher may
\* have drawn, subsA and subsB the subscriber maps, busOf the Bus each
\* application thread uses ("-" for none), s the scenario
InitBusesWith(s, idsA, idsB, subsA, subsB, busOf, started, rs) ==
    /\ \E a \in idsA, b \in idsB :
         /\ ids = [k \in Keys |-> IF k = "A" THEN a ELSE IF k = "B" THEN b ELSE 0]
         /\ bus = [k \in Keys |->
                     IF k = "A" THEN [NewBus(1, a) EXCEPT !.subscribers = subsA,
                                                          !.listen = k \in started]
                     ELSE IF k = "B" THEN [NewBus(2, b) EXCEPT !.subscribers = subsB,
                                                               !.listen = k \in started]
                     ELSE NoBus]
    /\ bus_datas = <<[key |-> "A", h |-> 1], [key |-> "B", h |-> 2]>>
    /\ rings = rs
    /\ disp = InitDisp
    /\ lst = [k \in Keys |-> IF k \in started
                            THEN [NewListener EXCEPT !.pc = "read", !.running = 1]
                            ELSE NewListener]
    /\ thr = [t \in Threads |-> IdleThread(IF t \in AppThreads THEN busOf[t] ELSE "-")]
    /\ scn = [s EXCEPT !.subs = [k \in Keys |-> IF k = "A" THEN subsA
                                               ELSE IF k = "B" THEN subsB
                                               ELSE NoSubscribers]]
    /\ hist = [InitHist EXCEPT
                 !.got = [k \in Keys |->
                            IF k = "A" THEN <<[id |-> ids["A"], rel |-> 0, h |-> 1]>>
                            ELSE IF k = "B" THEN <<[id |-> ids["B"], rel |-> 0, h |-> 2]>>
                            ELSE <<>>]]

\* two endpoints registered, nothing written yet
InitBuses(s, idsA, idsB, subsA, subsB, busOf, started) ==
    InitBusesWith(s, idsA, idsB, subsA, subsB, busOf, started, <<NewRings, NewRings>>)

\* Database.create_table on a file that did not exist: the four tables, empty.
\* users holds rows [username, password, global_access_level, last_login],
\* access_tokens rows [username, token, expiration, remember] with username
\* the primary key and token unique, server_users_access rows
\* [server_name, user_name, access_level]
NewDatabase ==
    [users |-> {}, servers |-> {}, server_users_access |-> {}, access_tokens |-> {}]

\* the bus applications open no database
InitTwo(s, idsA, idsB, subsA, subsB, busOf, started) ==
    /\ InitBuses(s, idsA, idsB, subsA, subsB, busOf, started)
    /\ database = NewDatabase
    /\ time = 0

\* a scenario: the calls the application threads may make, the values
\* random.randint(0, 255) of Bus.__send line 160 may return, the number of
\* trigger calls and of get_bus_data calls
Scenario(name, menu, mids, max_sends, max_regs) ==
    [name |-> name, menu |-> menu, mids |-> mids, max_sends |-> max_sends,
     max_regs |-> max_regs, subs |-> [k \in Keys |-> NoSubscribers]]

OnlyT1(key) == [t \in AppThreads |-> IF t = "t1" THEN key ELSE "-"]

Dispatcher == DispEnter \/ DispWhile \/ DispOuter \/ DispInner \/ DispMove

Listener == \E key \in Keys : ListenerTake(key) \/ ListenerReadEmpty(key) \/ ListenerShiftEmpty(key)

Sender == \E t \in Threads : Trigger(t) \/ SendWrite(t)

Waiter == \E t \in AppThreads : WaitRegister(t) \/ WaitReceived(t) \/ WaitTimeout(t) \/ WaitUnregister(t)

Worker == \E w \in WorkerThreads : WorkerExec(w)

Registration == \E key \in Keys : GetBusData(key)

BothThreads(key) == [t \in AppThreads |-> IF t \in {"t1", "t2"} THEN key ELSE "-"]

\* routing: B asks without having started its listener, A listens and
\* answers, a third endpoint may join, keys may be registered again
PingSubscribers == [id \in {PING.id} |-> <<UserCallback("on_ping_s")>>]

InitRoute ==
    InitTwo(Scenario("route", {PingCall(Str_s)}, {0}, RouteSends, RouteRegs),
            {1}, 1..MaxId, PingSubscribers, NoSubscribers, OnlyT1("B"), {"A"})

\* wait_for on a Bus whose listener is not started: no result ever comes
WaiterUnheard ==
    \E t \in AppThreads : WaitRegister(t) \/ WaitTimeout(t) \/ WaitUnregister(t)

NextRoute == Dispatcher \/ Listener \/ Sender \/ WaiterUnheard \/ Worker \/ Registration

SpecRoute == InitRoute /\ [][NextRoute]_vars

\* C1: every frame the dispatcher has written into a read ring went to a
\* peer other than the endpoint whose write ring it was taken from, and a
\* frame with target_id = t, t # 0, went only to endpoints whose id is t.
C1_Addressing ==
    \A f \in hist.fwd :
        /\ f.to # f.from
        /\ f.target_id # 0 => f.to_id = f.target_id

\* three endpoints are registered, a broadcast frame and a unicast frame
\* have been forwarded
C1_Witness ==
    /\ ids["C"] # 0
    /\ \E f, g \in hist.fwd : f.target_id = 0 /\ g.target_id # 0 /\ f.to = "C"

\* more registrations and fewer calls, both listeners started
InitJoin ==
    InitTwo(Scenario("join", {PingCall(Str_s)}, {0}, JoinSends, JoinRegs),
            {1}, 1..MaxId, PingSubscribers, NoSubscribers, OnlyT1("B"), {"A", "B"})

NextJoin == Dispatcher \/ Listener \/ Sender \/ Waiter \/ Worker \/ Registration

SpecJoin == InitJoin /\ [][NextJoin]_vars

MessageSubscribers == [id \in {MESSAGE.id} |-> <<UserCallback("on_message")>>]

InitFifo ==
    InitTwo(Scenario("fifo", {MessageCall(Str_t), MessageCall(Str_tt)}, 0..MaxMsgId,
                     FifoSends, 0),
            {1}, {2}, NoSubscribers, MessageSubscribers, OnlyT1("A"), {"B"})

NextFifo == Dispatcher \/ Listener \/ Sender \/ Worker

SpecFifo == InitFifo /\ [][NextFifo]_vars

\* the messages whose callbacks B's listener started, in the order it did
Dispatched(key) ==
    LET log == hist.dlog[key]
        F[i \in 0..Len(log)] ==
          IF i = 0 THEN <<>>
          ELSE IF log[i].spawned THEN Append(F[i - 1], log[i].muid) ELSE F[i - 1]
    IN  F[Len(log)]

\* C3: while no ring was saturated, the messages B's listener has decoded
\* and dispatched are the first ones A triggered, in the order A triggered
\* them, each once.
C3_FifoPerPair ==
    ~hist.sat =>
        /\ Len(Dispatched("B")) <= Len(hist.sent)
        /\ \A i \in 1..Len(Dispatched("B")) : Dispatched("B")[i] = i

\* C10: while no frame was lost, every decode B's listener performed on a
\* frame of a message of k >= 2 fragments was on fragment k-1, of that
\* message, with the arguments the sender gave.
C10_DecodeOnCompletion ==
    (~hist.sat /\ hist.lost = {}) =>
        \A i \in 1..Len(hist.dlog["B"]) :
            LET e == hist.dlog["B"][i] IN
            e.fragment_count >= 2 =>
                /\ e.fragment_number = e.fragment_count - 1
                /\ e.muid = e.uid
                /\ e.args = hist.sent[e.uid].kwargs

\* request and response: B asks, A has three subscribers, both listen
ThreePingSubscribers ==
    [id \in {PING.id} |-> <<UserCallback("on_ping_t"), UserCallback("on_ping_s"),
                            UserCallback("on_ping_any")>>]

InitReq ==
    InitTwo(Scenario("req", {PingCall(Str_s), MessageCall(Str_tt)}, {0}, ReqSends, 0),
            {1}, {2}, ThreePingSubscribers, NoSubscribers, OnlyT1("B"), {"A", "B"})

NextReq == Dispatcher \/ Listener \/ Sender \/ Waiter \/ Worker

SpecReq == InitReq /\ [][NextReq]_vars

\* fragmentation: one thread of B sends payloads of one fragment, of two
\* fragments and of 257 fragments; the dispatcher runs, nobody listens
Str_huge == [i \in 1..(256 * (MaxStringLength - PrefixLength)) |-> 116]

InitFrag ==
    InitTwo(Scenario("frag", {MessageCall(Str_t), MessageCall(Str_tt),
                              MessageCall(Str_huge)}, 0..MaxMsgId, FragSends, 0),
            {1}, {2}, NoSubscribers, NoSubscribers, OnlyT1("B"), {})

NextFrag == Dispatcher \/ Sender

SpecFrag == InitFrag /\ [][NextFrag]_vars

\* the frames written for the call uid, in write order
FramesOf(key, uid) ==
    LET log == hist.wrote[key]
        F[i \in 0..Len(log)] ==
          IF i = 0 THEN <<>>
          ELSE IF log[i].uid = uid THEN Append(F[i - 1], ReadPrefix(log[i].s))
          ELSE F[i - 1]
    IN  F[Len(log)]

\* payloads of frames, concatenated in order
RECURSIVE Payload(_)
Payload(frames) ==
    IF frames = <<>> THEN <<>> ELSE Head(frames).data \o Payload(Tail(frames))

\* ceil(L / (M - 15)), or 1 when the payload fits one frame
ExpectedFrames(L) ==
    IF L + 15 <= MaxStringLength THEN 1
    ELSE (L + (MaxStringLength - 15) - 1) \div (MaxStringLength - 15)

\* C11: every call whose loop of writes has ended, and that was not stopped
\* by a full ring, wrote one frame when L + 15 <= M and ceil(L / (M - 15))
\* frames otherwise, none with an empty payload, none longer than M, all
\* with one message_id and the same fragment_count, numbered 0.. in write
\* order, and their payloads concatenated are the encoded payload.
C11_Fragmentation ==
    \A j \in 1..Len(hist.sent) :
        LET c == hist.sent[j]
            fr == FramesOf(c.bus, j)
        IN  ((\A t \in Threads : ~(thr[t].pc = "write" /\ thr[t].uid = j))
             /\ (c.outcome = "raised" => c.too_long))
            => /\ Len(fr) = ExpectedFrames(Len(c.encoded))
               /\ Payload(fr) = c.encoded
               /\ \A i \in 1..Len(fr) :
                     /\ fr[i].ok
                     /\ fr[i].data # <<>>
                     /\ Len(PrefixStr(fr[i].prefix)) + 1 + Len(fr[i].data) <= MaxStringLength
                     /\ fr[i].prefix.message_id = fr[1].prefix.message_id
                     /\ fr[i].prefix.fragment_count = Len(fr)
                     /\ fr[i].prefix.fragment_number = i - 1

\* producers only: two threads of B send, the dispatcher runs, nobody listens
InitWrite ==
    InitTwo(Scenario("write", {MessageCall(Str_t), MessageCall(Str_tt)}, {0},
                     WriteSends, 0),
            {1}, {2}, NoSubscribers, NoSubscribers, BothThreads("B"), {})

NextWrite == Dispatcher \/ Sender

SpecWrite == InitWrite /\ [][NextWrite]_vars

\* the PING calls for the name "s", which A's subscriber on_ping_s answers
\* with "r", that have returned
C4_Requests ==
    {j \in 1..Len(hist.sent) :
        /\ hist.sent[j].event_id = PING.id
        /\ hist.sent[j].kwargs = [n \in {"server_name"} |-> Str_s]
        /\ hist.sent[j].outcome = "returned"}

\* C4: a PING for "s" that B triggered and that returned with no ring
\* saturated, the reply handled by B's listener before the timeout, returned
\* the value "r" of A's subscriber.
C4_TriggerReturnsReply ==
    ~hist.sat =>
        \A j \in C4_Requests :
            hist.sent[j].answered =>
                hist.sent[j].result = [set |-> TRUE, v |-> Str_r]

\* C5: no request has more than one response frame sent for it.
C5_OneResponse ==
    \A j \in 1..Len(hist.sent) :
        Cardinality({r \in 1..Len(hist.sent) : hist.sent[r].req = j}) <= 1

\* C6: every worker passed to __exec_callback the event, the arguments and
\* the source id of the message it was started for.
C6_WorkerUsesItsMessage ==
    \A i \in 1..Len(hist.execs) :
        LET x == hist.execs[i] IN
        /\ x.event_id = x.spawn.event_id
        /\ x.args = x.spawn.args
        /\ x.source_id = x.spawn.source_id

\* the one-shot listeners of the wait_for calls in progress on the Bus of key
Waiting(key, event_id) ==
    LET T == {t \in AppThreads : /\ thr[t].bus = key
                                 /\ thr[t].pc \in {"wf_poll", "wf_unreg"}
                                 /\ ReturnEvent(thr[t].event).event.id = event_id}
    IN  IF T = {} THEN <<>> ELSE <<WaitCallback(CHOOSE t \in T : TRUE)>>

Occupied(list) == Cardinality({i \in 1..Len(list) : list[i].s # EmptyString})

\* what C8 says of one step: a __write on a full write ring raises, ends the
\* call and leaves the ring as it was; a __write on a ring with a free slot
\* succeeds and occupies one more slot; __move_forward of the dispatcher
\* leaves a free slot
C8_Step ==
    /\ \A t \in Threads :
          (thr[t].pc = "write" /\ thr'[t] # thr[t]) =>
              LET h == bus[thr[t].bus].h IN
              IF Occupied(rings[h].w) = MemorySize
              THEN /\ rings'[h].w = rings[h].w
                   /\ thr'[t].pc = "idle"
                   /\ hist'.sent[thr[t].uid].outcome = "raised"
              ELSE /\ Occupied(rings'[h].w) = Occupied(rings[h].w) + 1
                   /\ hist'.sent[thr[t].uid].outcome # "raised"
    /\ (disp.pc = "move" /\ disp'.pc = "outer") =>
          Occupied(rings'[bus[disp.rec_key].h].w) < MemorySize

C9_FragmentsContiguous ==
    \A key \in Keys :
        \A i, j \in 1..Len(hist.wrote[key]) :
            (i < j /\ hist.wrote[key][i].uid = hist.wrote[key][j].uid) =>
                \A k \in i..j : hist.wrote[key][k].uid = hist.wrote[key][i].uid

(***************************************************************************)
(* Frames the listener cannot decode.                                      *)
(***************************************************************************)
\* a text that is the record separator itself: Event.encode does not escape
\* it, so the payload holds an argument with two record separators
Str_rs == <<RECORD_SEPARATOR>>

\* A sends MESSAGE with such a text and with an ordinary text, each in one
\* frame; B listens with a MESSAGE subscriber
InitBad ==
    InitTwo(Scenario("bad", {MessageCall(Str_rs), MessageCall(Str_t)}, {0}, BadSends, 0),
            {1}, {2}, NoSubscribers, MessageSubscribers, OnlyT1("A"), {"B"})

NextBad == Dispatcher \/ Listener \/ Sender \/ Worker

SpecBad == InitBad /\ [][NextBad]_vars

\* C12: whatever a frame holds (a prefix or a payload that cannot be parsed,
\* an unknown event or argument id, a value that cannot be decoded), the
\* loop of the listener is not terminated by it.
C12_ListenerSurvives == \A key \in Keys : lst[key].pc # "dead"

(***************************************************************************)
(* A subscriber callback that raises.                                      *)
(***************************************************************************)
\* B's PING subscribers: one that answers for "t", one registered with the
\* wrong keywords (it raises TypeError when called), one that answers "s"
RaisingSubscribers ==
    [id \in {PING.id} |-> <<UserCallback("on_ping_t"), UserCallback("on_message"),
                            UserCallback("on_ping_s")>>]

\* A asks PING("s") and PING("t") without having started its listener
InitRaise ==
    InitTwo(Scenario("raise", {PingCall(Str_s), PingCall(Str_t)}, {0}, RaiseSends, 0),
            {1}, {2}, NoSubscribers, RaisingSubscribers, OnlyT1("A"), {"B"})

NextRaise == Dispatcher \/ Listener \/ Sender \/ WaiterUnheard \/ Worker

SpecRaise == InitRaise /\ [][NextRaise]_vars

\* C13: when a subscriber callback has raised, the exception stayed in the
\* worker: no listener loop has ended, and the worker has emitted no
\* response for the message it was started for.
C13_RaiseStaysInWorker ==
    \A i \in 1..Len(hist.execs) :
        hist.execs[i].raised =>
            /\ \A key \in Keys : lst[key].pc # "dead"
            /\ ~hist.execs[i].reply.set
            /\ \A j \in 1..Len(hist.sent) :
                  ~(hist.sent[j].thread \in WorkerThreads
                    /\ hist.sent[j].req = hist.execs[i].spawn.uid)

\* a callback has raised for one request, the listener has gone on and a
\* worker has answered another request
C13_Witness ==
    /\ \E i \in 1..Len(hist.execs) :
          hist.execs[i].raised /\ Len(hist.execs[i].invoked) = 2
    /\ \E i \in 1..Len(hist.execs) : hist.execs[i].reply.set
    /\ lst["B"].pc = "read"

(***************************************************************************)
(* start() and stop() of an endpoint.                                      *)
(***************************************************************************)
\* A sends one-frame messages; two threads of B's process call start() and
\* stop() on B's Bus, which is constructed, has no subscriber and is not
\* started
Controllers == {"t2", "t3"}

InitLife ==
    InitTwo(Scenario("life", {MessageCall(Str_t)}, {0}, LifeSends, 0),
            {1}, {2}, NoSubscribers, NoSubscribers,
            [t \in AppThreads |-> IF t \in Controllers THEN "B" ELSE "A"], {})

Lifecycle ==
    \E t \in Controllers :
        StartCheck(t) \/ StartSet(t) \/ StartThread(t) \/ StopBegin(t) \/ StopJoin(t)

ListenerStop == \E key \in Keys : ListenerExit(key)

NextLife == Dispatcher \/ Listener \/ ListenerStop \/ Sender \/ Lifecycle

SpecLife == InitLife /\ [][NextLife]_vars

\* no call of start() or stop() on the Bus of key is under way
Quiet(key) == \A t \in AppThreads : thr[t].bus = key => thr[t].pc = "idle"

\* C14: when start() has returned with the listener started, a stop() called
\* after that has returned, a start() called after that has returned too and
\* no other call is under way, the endpoint is listening again: its listener
\* thread runs.
C14_Restart ==
    \A key \in Keys :
        LET life == hist.life[key] IN
        (/\ Quiet(key)
         /\ Len(life) >= 3
         /\ life[Len(life)].op = "start"
         /\ \E i, j \in 1..(Len(life) - 1) :
               /\ life[i].op = "start" /\ life[i].how = "started"
               /\ life[j].op = "stop" /\ life[j].how = "joined"
               /\ life[i].seen < life[j].n
               /\ life[j].seen < life[Len(life)].n)
        => IsAlive(lst[key])

\* C15: once stop() has cleared the flag of a listening endpoint, the
\* listener finishes at most the turn it is in (it dispatches at most one
\* more frame while stop() waits for it), and after stop() has returned the
\* listener thread has ended and has taken no further frame.
C15_StopEnds ==
    /\ \A t \in AppThreads :
          thr[t].pc = "stop_join" => Len(hist.dlog[thr[t].bus]) - hist.mark[t] <= 1
    /\ \A key \in Keys : \A i \in 1..Len(hist.life[key]) :
          (/\ hist.life[key][i].op = "stop"
           /\ hist.life[key][i].how = "joined"
           /\ \A j \in (i + 1)..Len(hist.life[key]) : hist.life[key][j].how # "started")
          => /\ ~IsAlive(lst[key])
             /\ Len(hist.dlog[key]) = hist.life[key][i].at

\* C16: at every moment at most one listener thread of an endpoint exists,
\* also when start() is called again or by two threads at once; and a
\* start() that finds the endpoint listening, like a stop() that finds it
\* not listening, changes nothing of the endpoint.
C16_OneListener ==
    /\ [](\A key \in Keys : lst[key].running <= 1)
    /\ [][\A t \in AppThreads :
            (\/ StartCheck(t) /\ bus[thr[t].bus].listen
             \/ StopBegin(t) /\ ~bus[thr[t].bus].listen)
            => UNCHANGED <<bus_datas, ids, rings, disp, bus, lst, thr>>]_vars

\* two threads were in start() at once: one started the listener, the
\* other's thread.start() failed; a further call found nothing to do
C16_Witness ==
    \E i, j, k \in 1..Len(hist.life["B"]) :
        /\ hist.life["B"][i].how = "started"
        /\ hist.life["B"][j].how = "failed"
        /\ hist.life["B"][i].thread # hist.life["B"][j].thread
        /\ hist.life["B"][k].how = "noop"
        /\ lst["B"].running = 1

(***************************************************************************)
(* Endpoint ids.                                                           *)
(***************************************************************************)
\* A and B are registered with different ids and built, the dispatcher
\* thread is not started yet; keys are registered and released, B sends
InitIds ==
    InitTwo(Scenario("ids", {MessageCall(Str_t)}, {0}, IdsSends, IdsRegs),
            {1}, {2}, NoSubscribers, NoSubscribers, OnlyT1("B"), {})

Release == \E key \in Keys : ReleaseSharedMemory(key)

NextIds == Registration \/ Release \/ Sender

SpecIds == InitIds /\ [][NextIds]_vars

\* C17: two different keys that both have an endpoint id never have the
\* same one.
C17_DistinctIds ==
    \A k1, k2 \in Keys : (k1 # k2 /\ ids[k1] # 0 /\ ids[k2] # 0) => ids[k1] # ids[k2]

\* C18: the id get_bus_data returns is in 1..255, and every call for one key
\* has returned the same id, also the calls made after the key was released.
C18_StableId ==
    \A key \in Keys : \A i \in 1..Len(hist.got[key]) :
        /\ hist.got[key][i].id \in 1..255
        /\ hist.got[key][i].id = hist.got[key][1].id
        /\ hist.got[key][i].id = ids[key]

\* a key was registered, released and registered again, and a key first
\* seen after another one's release was registered
C18_Witness ==
    /\ \E key \in Keys : \E i, j \in 1..Len(hist.got[key]) :
          hist.got[key][i].rel < hist.got[key][j].rel
    /\ hist.got["C"] # <<>>
    /\ DictIndex(bus_datas, "A") = 0

(***************************************************************************)
(* Stopping the dispatcher.                                                *)
(***************************************************************************)
\* the dispatcher thread has been started (it may not have run line 118
\* yet); B sends, Core.stop calls BusDispatcher.stop at any moment
InitQuit ==
    InitTwo(Scenario("quit", {MessageCall(Str_t)}, {0}, QuitSends, 0),
            {1}, {2}, NoSubscribers, NoSubscribers, OnlyT1("B"), {})

NextQuit == Dispatcher \/ DispStop \/ Sender

SpecQuit == InitQuit /\ [][NextQuit]_vars

\* C20: whenever stop() is called after the mainloop thread was started,
\* mainloop comes to return: once stop() has been called, no test of the
\* while condition lets a further turn begin, so that the turn under way is
\* the last one.
C20_StopEndsMainloop == ~hist.again

(***************************************************************************)
(* Forwarding by the running dispatcher.                                   *)
(***************************************************************************)
\* A sends broadcast frames, nobody reads B's read ring, a third endpoint
\* may be registered once; the dispatcher thread is scheduled again and
\* again (it is a thread of its own that sleeps 10 ms between its turns)
InitFwd ==
    InitTwo(Scenario("fwd", {MessageCall(Str_t)}, {0}, FwdSends, FwdRegs),
            {1}, {2}, NoSubscribers, NoSubscribers, OnlyT1("A"), {})

\* get_bus_data for a key that has no endpoint yet
JoinNew == \E key \in Keys : ids[key] = 0 /\ GetBusData(key)

NextFwd == Dispatcher \/ Sender \/ JoinNew

SpecFwd == InitFwd /\ [][NextFwd]_vars /\ WF_vars(Dispatcher)

\* the frame of send uid lies in the write ring of A
InWriteRing(uid) == \E i \in 1..MemorySize : rings[bus["A"].h].w[i].uid = uid

\* the dispatcher has dealt with the frame of send uid for the peer key: it
\* wrote it into the read ring of key, or found no empty slot there
Served(uid, key) ==
    \/ \E f \in hist.fwd : f.uid = uid /\ f.to = key
    \/ \E f \in hist.full : f.uid = uid /\ f.to = key

ReleaseAllBegin(t) ==
    /\ thr[t].pc = "idle"
    /\ hist.shut = "no"
    /\ thr' = [thr EXCEPT ![t].pc = "release_all",
                          ![t].parts = [i \in 1..Len(bus_datas) |-> bus_datas[i].key],
                          ![t].i = 0]
    /\ hist' = [hist EXCEPT !.shut = "begun"]
    /\ UNCHANGED <<bus_datas, ids, rings, disp, bus, lst, scn, database, time>>

\* one turn of the for of line 61 with release_shared_memory (line 62), whose
\* KeyError leaves the method; after the last key line 63 and the return
ReleaseAllStep(t) ==
    /\ thr[t].pc = "release_all"
    /\ IF thr[t].i >= Len(thr[t].parts)
       THEN /\ thr' = [thr EXCEPT ![t].pc = "idle", ![t].parts = <<>>, ![t].i = 0]
            /\ hist' = [hist EXCEPT !.shut = "returned"]
            /\ UNCHANGED <<bus_datas, ids, rings>>
       ELSE IF DictIndex(bus_datas, thr[t].parts[thr[t].i + 1]) = 0
       THEN /\ thr' = [thr EXCEPT ![t].pc = "idle", ![t].parts = <<>>, ![t].i = 0]
            /\ hist' = [hist EXCEPT !.shut = "raised"]
            /\ UNCHANGED <<bus_datas, ids, rings>>
       ELSE /\ ReleaseEffect(thr[t].parts[thr[t].i + 1])
            /\ thr' = [thr EXCEPT ![t].i = @ + 1]
            /\ hist' = [hist EXCEPT !.rel[thr[t].parts[thr[t].i + 1]] = @ + 1]
    /\ UNCHANGED <<disp, bus, lst, scn, database, time>>

\* BusDispatcher.__del__, run when the last reference to the dispatcher goes:
\* the mainloop thread has ended and its owner makes no call any more;
\* SharedMemoryManager.shutdown() (line 34) frees every segment the manager
\* made, lines 35-42 close the lists of the table
DispDel ==
    /\ disp.pc \in {"returned", "crashed"}
    /\ hist.shut \in {"no", "returned", "raised"}
    /\ \A t \in AppThreads : thr[t].pc = "idle"
    /\ rings' = [h \in 1..Len(rings) |-> [rings[h] EXCEPT !.live = FALSE]]
    /\ hist' = [hist EXCEPT !.shut = "deleted"]
    /\ UNCHANGED <<bus_datas, ids, disp, bus, lst, thr, scn, database, time>>

\* the thread that owns the dispatcher (Core) calls release_all_shared_memories
ReleaseAll == \E t \in {"t3"} : ReleaseAllBegin(t) \/ ReleaseAllStep(t)

\* get_bus_data and release_shared_memory, called by the same thread before
\* it calls release_all_shared_memories
OwnerCalls == hist.shut = "no" /\ (Registration \/ Release)

\* A and B are registered and built, the dispatcher thread has been started;
\* B sends, keys are registered (again) and released, stop() and
\* release_all_shared_memories() are called
InitShut ==
    InitTwo(Scenario("shut", {MessageCall(Str_t)}, {0}, ShutSends, ShutRegs),
            {1}, {2}, NoSubscribers, NoSubscribers, OnlyT1("B"), {})

\* a Bus is not used any more once the dispatcher is gone
SenderShut == hist.shut # "deleted" /\ Sender

NextShut == Dispatcher \/ DispStop \/ SenderShut \/ OwnerCalls \/ ReleaseAll \/ DispDel

SpecShut == InitShut /\ [][NextShut]_vars

\* the rings of handle h were replaced in the table: get_bus_data was called
\* again for their key while the key was registered
Replaced(h) ==
    \E key \in Keys : \E i \in 1..Len(hist.got[key]) :
        /\ hist.got[key][i].h = h
        /\ i < Len(hist.got[key])
        /\ hist.got[key][i + 1].rel = hist.got[key][i].rel

ArgsMenu ==
    {Call(MESSAGE, [n \in {"text"} |-> Str_t], DefaultTimeout),
     Call(MESSAGE, NoArgs, DefaultTimeout),
     Call(MESSAGE, [n \in {"text", "colour"} |-> IF n = "text" THEN Str_t ELSE Str_s],
          DefaultTimeout),
     Call(STARTED, [n \in {"server_name"} |-> Str_s], DefaultTimeout),
     Call(STARTED, [n \in {"timestamp"} |-> PyDatetime(9, 0)], DefaultTimeout),
     Call(STARTED, [n \in {"timestamp", "server_name"} |->
                      IF n = "timestamp" THEN PyDatetime(9, 0) ELSE Str_s],
          DefaultTimeout)}

\* A and B are registered and built, the dispatcher thread runs, B triggers
InitArgs ==
    InitTwo(Scenario("args", ArgsMenu, {0}, ArgsSends, 0),
            {1}, {2}, NoSubscribers, PingSubscribers, OnlyT1("B"), {})

NextArgs == Dispatcher \/ Sender

SpecArgs == InitArgs /\ [][NextArgs]_vars

\* a declared argument other than the timestamp that __send fills in has no
\* value in kwargs
MissingArgument(event, kwargs) ==
    \E i \in 1..Len(event.args) :
        /\ event.args[i].name \notin DOMAIN kwargs
        /\ ~(event.args[i].name = "timestamp" /\ event.args[i].type = "datetime")

\* kwargs has a name the event does not declare
ExtraArgument(event, kwargs) ==
    \E n \in DOMAIN kwargs : \A i \in 1..Len(event.args) : event.args[i].name # n

\* the call uid raised in Event.encode and no frame of it exists
RaisedWithoutFrame(uid) ==
    /\ hist.sent[uid].outcome = "encode_raised"
    /\ \A i \in 1..Len(hist.wrote[hist.sent[uid].bus]) :
          hist.wrote[hist.sent[uid].bus][i].uid # uid
    /\ \A h \in 1..Len(rings) : \A i \in 1..MemorySize :
          rings[h].w[i].uid # uid /\ rings[h].r[i].uid # uid

\* the newest call of the history
LastSent(h) == h.sent[Len(h.sent)]

\* C22: a trigger call that lacks a value for a declared argument (other
\* than a timestamp filled in automatically) raises and writes no frame; the
\* rings and the subscriber maps are what they were before the call.
C22_MissingArgument ==
    /\ [](\A uid \in 1..Len(hist.sent) :
            MissingArgument(GetEvent(hist.sent[uid].event_id).event, hist.sent[uid].kwargs)
            => RaisedWithoutFrame(uid))
    /\ [][\A t \in AppThreads :
            (/\ Trigger(t)
             /\ MissingArgument(GetEvent(LastSent(hist').event_id).event,
                                LastSent(hist').kwargs))
            => UNCHANGED <<rings, bus, thr>>]_vars

\* a call without text and a call without server_name have raised; a call
\* that left out the timestamp only has written its frame
C22_Witness ==
    \E i, j \in 1..Len(hist.sent) :
        /\ hist.sent[i].outcome = "encode_raised"
        /\ hist.sent[i].event_id \in {MESSAGE.id, STARTED.id}
        /\ MissingArgument(GetEvent(hist.sent[i].event_id).event, hist.sent[i].kwargs)
        /\ hist.sent[j].event_id = STARTED.id
        /\ DOMAIN hist.sent[j].kwargs = {"server_name"}
        /\ hist.sent[j].outcome = "returned"

\* C23: a trigger call with a keyword argument that the event does not
\* declare raises an argument-mismatch error and writes no frame.
C23_ExtraArgument ==
    \A uid \in 1..Len(hist.sent) :
        ExtraArgument(GetEvent(hist.sent[uid].event_id).event, hist.sent[uid].kwargs)
        => RaisedWithoutFrame(uid)

(***************************************************************************)
(* The codec as a function: Event.decode(Event.encode(event, **kwargs)).   *)
(***************************************************************************)
\* the strings of at most CodecLen characters over s, space and the record
\* separator
CodecChars == {115, SPACE, RECORD_SEPARATOR}

CodecTexts == UNION {[1..n -> CodecChars] : n \in 0..CodecLen}

CodecTimes == {PyDatetime(seconds, microsecond) : seconds \in {0, 7, 12}, microsecond \in {0, 5}}

CodecInts == {PyInt(n) : n \in {-12, 0, 7}}

\* the values a declared type may be given
ValuesOf(type) ==
    IF type \in {"str", "string"} THEN CodecTexts
    ELSE IF type = "datetime" THEN CodecTimes
    ELSE IF type = "int" THEN CodecInts
    ELSE {PyBool(TRUE), PyBool(FALSE)}

ArgNames(event) == {event.args[i].name : i \in 1..Len(event.args)}

ArgType(event, name) ==
    event.args[CHOOSE i \in 1..Len(event.args) : event.args[i].name = name].type

\* the events of the catalog and the response event of PING, each with
\* every kwargs that gives each declared argument a value of its type
CodecInputs ==
    {Call(event, kwargs, DefaultTimeout) :
        event \in Catalog \cup {ReturnEvent(PING).event},
        kwargs \in UNION {[ArgNames(e) -> CodecTexts \cup CodecTimes \cup CodecInts
                                          \cup {PyBool(TRUE), PyBool(FALSE)}] :
                          e \in Catalog \cup {ReturnEvent(PING).event}}}

\* kwargs supplies exactly the declared arguments of event, with values of
\* the declared types, the strings free of FS, GS and RS
LegalKwargs(event, kwargs) ==
    /\ DOMAIN kwargs = ArgNames(event)
    /\ \A n \in DOMAIN kwargs :
          /\ kwargs[n] \in ValuesOf(ArgType(event, n))
          /\ TypeName(kwargs[n]) = "str" =>
                \A i \in 1..Len(kwargs[n]) :
                    kwargs[n][i] \notin {FILE_SEPARATOR, GROUP_SEPARATOR, RECORD_SEPARATOR}

\* one call of the codec is chosen
InitCodec ==
    \E call \in {c \in CodecInputs : DOMAIN c.kwargs = ArgNames(c.event)
                                    /\ \A n \in DOMAIN c.kwargs :
                                          c.kwargs[n] \in ValuesOf(ArgType(c.event, n))} :
        InitTwo(Scenario("codec", {call}, {0}, 0, 0),
                {1}, {2}, NoSubscribers, NoSubscribers, OnlyT1("B"), {})

\* Event.decode(Event.encode(event, **kwargs)); a raise of encode is kept as
\* a failed result
CodecApply ==
    /\ hist.codec = <<>>
    /\ \E call \in scn.menu :
         LET Decoded(enc) ==
               IF enc.ok THEN EventDecode(enc.s)
               ELSE [ok |-> FALSE, event |-> NoEvent, args |-> NoArgs]
             Both(enc) ==
               [event |-> call.event, kwargs |-> call.kwargs, encoded |-> enc,
                decoded |-> Decoded(enc)]
         IN  hist' = [hist EXCEPT !.codec = <<Both(EventEncode(call.event, call.kwargs))>>]
    /\ UNCHANGED <<bus_datas, ids, rings, disp, bus, lst, thr, scn, database, time>>

NextCodec == CodecApply

SpecCodec == InitCodec /\ [][NextCodec]_vars

\* a datetime as it comes back: the whole seconds, microsecond 0
WholeSeconds(value) ==
    IF TypeName(value) = "datetime" THEN PyDatetime(value[2], 0) ELSE value

ParseEventElement(acc, event, namespace_name) ==
    LET Store(event_id) ==
          IF event_id <= 0 THEN [ok |-> FALSE, events |-> acc.events]
          ELSE [ok |-> TRUE,
                events |-> [id \in DOMAIN acc.events \cup {event_id} |->
                              IF id = event_id
                              THEN Event(namespace_name \o <<event.name>>, event_id,
                                         <<>>, "None")
                              ELSE acc.events[id]]]
    IN  IF ~acc.ok THEN acc ELSE Store(ParseHex(event.id))

\* the loop of line 444
RECURSIVE ParseEventElements(_, _, _)
ParseEventElements(acc, events, namespace_name) ==
    IF events = <<>> THEN acc
    ELSE ParseEventElements(ParseEventElement(acc, Head(events), namespace_name),
                            Tail(events), namespace_name)

\* EventsType.__parse_namespace: the sub-namespaces first (lines 439-443),
\* then the events of the namespace
RECURSIVE ParseNamespace(_, _, _)
RECURSIVE ParseNamespaces(_, _, _)
ParseNamespaces(acc, subs, namespace_name) ==
    IF subs = <<>> THEN acc
    ELSE ParseNamespaces(ParseNamespace(acc, Head(subs),
                                        namespace_name \o <<Head(subs).name>>),
                         Tail(subs), namespace_name)

ParseNamespace(acc, namespace, namespace_name) ==
    IF ~acc.ok THEN acc
    ELSE ParseEventElements(ParseNamespaces(acc, namespace.subs, namespace_name),
                            namespace.events, namespace_name)

\* EventsType.__init__ / __load_events for a root with one namespace
LoadEvents(namespace) ==
    ParseNamespace([ok |-> TRUE, events |-> [id \in {} |-> NoEvent]], namespace,
                   <<namespace.name>>)

\* the id attributes: "0", "1", "01", "2"
SourceIds == {<<48>>, <<49>>, <<48, 49>>, <<50>>}

SourceEvents == {[name |-> n, id |-> i] : n \in {"X", "Y"}, i \in SourceIds}

SourceLists == UNION {[1..n -> SourceEvents] : n \in 0..SourceLen}

\* a namespace N with at most one sub-namespace S
Sources ==
    {[name |-> "N", subs |-> subs, events |-> events] :
        subs \in {<<>>} \cup {<<[name |-> "S", subs |-> <<>>, events |-> e]>> : e \in SourceLists},
        events \in SourceLists}

\* one source is chosen; EventsType(xml_path) has not been called yet
InitLoad ==
    \E source \in Sources :
        InitTwo(Scenario("load", {source}, {0}, 0, 0),
                {1}, {2}, NoSubscribers, NoSubscribers, OnlyT1("B"), {})

\* Events = EventsType(xml_path) (events.py lines 498-502)
CatalogLoad ==
    /\ hist.loaded = <<>>
    /\ \E source \in scn.menu :
         hist' = [hist EXCEPT !.loaded = <<[source |-> source,
                                            result |-> LoadEvents(source)]>>]
    /\ UNCHANGED <<bus_datas, ids, rings, disp, bus, lst, thr, scn, database, time>>

NextLoad == CatalogLoad

SpecLoad == InitLoad /\ [][NextLoad]_vars

\* the event elements of a source in the order the loader meets them
RECURSIVE Declared(_, _)
Declared(namespace, namespace_name) ==
    (IF namespace.subs = <<>> THEN <<>>
     ELSE Declared(namespace.subs[1], namespace_name \o <<namespace.subs[1].name>>))
    \o [i \in 1..Len(namespace.events) |->
          [name |-> namespace_name \o <<namespace.events[i].name>>,
           id |-> ParseHex(namespace.events[i].id)]]

\* C25: loading a source in which two events have the same id, or an event
\* has id zero, fails with an error; an event that was loaded is not
\* replaced by a later event with the same id.
C25_CatalogUnique ==
    \A k \in 1..Len(hist.loaded) :
        LET decl == Declared(hist.loaded[k].source, <<hist.loaded[k].source.name>>)
            res == hist.loaded[k].result
        IN  /\ (\/ \E i \in 1..Len(decl) : decl[i].id = 0
                \/ \E i, j \in 1..Len(decl) : i # j /\ decl[i].id = decl[j].id)
               => ~res.ok
            /\ \A i, j \in 1..Len(decl) :
                  (i < j /\ decl[i].id = decl[j].id /\ decl[i].id \in DOMAIN res.events)
                  => res.events[decl[i].id].name # decl[j].name

(***************************************************************************)
(* Bus.register.                                                           *)
(***************************************************************************)
\* callback.__annotations__ of the callbacks of the scenario, by name
Annotations(callback) ==
    IF callback.name = "on_ping"
    THEN [n \in {"server_name", "return"} |-> "str"]
    ELSE IF callback.name = "on_message"
    THEN [n \in {"text"} |-> "str"]
    ELSE IF callback.name = "on_message_none"
    THEN [n \in {"text", "return"} |-> IF n = "text" THEN "str" ELSE "None"]
    ELSE IF callback.name = "on_message_int"
    THEN [n \in {"text"} |-> "int"]
    ELSE IF callback.name = "on_message_upper"
    THEN [n \in {"text"} |-> "Str"]
    ELSE IF callback.name = "on_message_extra"
    THEN [n \in {"text", "colour"} |-> "str"]
    ELSE IF callback.name = "on_started"
    THEN [n \in {"timestamp", "server_name"} |->
            IF n = "timestamp" THEN "datetime" ELSE "str"]
    ELSE [n \in {} |-> "None"]

RegCallbacks ==
    {UserCallback(name) : name \in {"on_ping", "on_message", "on_message_none",
                                    "on_message_int", "on_message_upper",
                                    "on_message_extra", "on_started", "on_bare"}}

\* the register calls of the scenario
RegMenu == {[event |-> e, callback |-> c] : e \in {PING, MESSAGE, STARTED}, c \in RegCallbacks}

\* Bus.register(event, callback): __check_callback, then __register
BusRegister(t) ==
    /\ t \in AppThreads
    /\ thr[t].pc = "idle"
    /\ thr[t].bus \in Keys
    /\ bus[thr[t].bus].h # 0
    /\ hist.regs < scn.max_regs
    /\ \E call \in scn.menu :
         IF CheckCallback(call.event, Annotations(call.callback))
         THEN /\ bus' = [bus EXCEPT ![thr[t].bus].subscribers =
                           Register(@, call.event, call.callback)]
              /\ hist' = [hist EXCEPT
                           !.regs = @ + 1,
                           !.reglog = Append(@, [bus |-> thr[t].bus, event |-> call.event,
                                                 callback |-> call.callback,
                                                 raised |-> FALSE])]
         ELSE /\ bus' = bus
              /\ hist' = [hist EXCEPT
                           !.regs = @ + 1,
                           !.reglog = Append(@, [bus |-> thr[t].bus, event |-> call.event,
                                                 callback |-> call.callback,
                                                 raised |-> TRUE])]
    /\ UNCHANGED <<bus_datas, ids, rings, disp, lst, thr, scn, database, time>>

\* B is built with one PING subscriber; its application registers callbacks
InitReg ==
    InitTwo(Scenario("reg", RegMenu, {0}, 0, RegCalls),
            {1}, {2}, NoSubscribers, PingSubscribers, OnlyT1("B"), {})

NextReg == \E t \in AppThreads : BusRegister(t)

SpecReg == InitReg /\ [][NextReg]_vars

\* the register call that has just returned or raised
LastReg(h) == h.reglog[Len(h.reglog)]

\* C26: a register call that rejects the callback raises and leaves the
\* subscriber map as it was; one that accepts it appends the callback at the
\* end of subscribers[event.id] and changes no other entry.
C26_Register ==
    [][\A t \in AppThreads :
         BusRegister(t) =>
           LET key == LastReg(hist').bus
               id == LastReg(hist').event.id
               old == bus[key].subscribers
               new == bus'[key].subscribers
           IN  /\ \A k \in Keys \ {key} : bus'[k] = bus[k]
               /\ IF LastReg(hist').raised
                  THEN new = old
                  ELSE /\ DOMAIN new = DOMAIN old \cup {id}
                       /\ new[id] = Append(GetSubscribers(bus[key], id),
                                           LastReg(hist').callback)
                       /\ \A e \in DOMAIN old \ {id} : new[e] = old[e]]_vars

\* callbacks were rejected for a wrong type, for a return type and for an
\* extra parameter, and two callbacks were accepted for MESSAGE after one
\* another
C26_Witness ==
    /\ \E i \in 1..Len(hist.reglog) : hist.reglog[i].raised
    /\ \E i \in 1..Len(hist.reglog) :
          hist.reglog[i].raised /\ hist.reglog[i].callback.name = "on_message_upper"
          /\ hist.reglog[i].event = MESSAGE
    /\ MESSAGE.id \in DOMAIN bus["B"].subscribers
    /\ bus["B"].subscribers[MESSAGE.id] =
          <<UserCallback("on_message_none"), UserCallback("on_message")>>

\* ---------------------------------------------------------------------------
\* The HTTP API of HttpServer: users and access tokens (http_server.py,
\* database/database.py, database/types.py).  Every route runs as one step.
\* ---------------------------------------------------------------------------

\* AccessLevel of database/types.py
USER == 0

\* timedelta(hours=1) of the login and register routes, time counted in hours
TokenLife == 1

\* the clock advances at most this far, and at most this many tokens are issued
MaxTime == 1
MaxTokens == 2

\* utils/hash.py: an argon2 hash verifies against the string it was made from
HashString(input_string) == <<"argon2", input_string>>

VerifyHash(input_string, hashed_string) == hashed_string = HashString(input_string)

\* utils/misc.py str2bool, on lower-case strings
Str2Bool(v) ==
    IF v \in {"yes", "true", "t", "1"} THEN [ok |-> TRUE, value |-> TRUE]
    ELSE IF v \in {"no", "false", "f", "0"} THEN [ok |-> TRUE, value |-> FALSE]
    ELSE [ok |-> FALSE, value |-> FALSE]

\* types.User.__init__ and the keywords the register route passes to it
UserParams ==
    {"username", "password", "registered_at", "last_login", "last_ip", "global_access_level"}

RegisterKwargs ==
    {"username", "password", "access_level", "registered_at", "last_login", "last_ip"}

User(username, password, last_login, global_access_level) ==
    [username |-> username, password |-> password,
     global_access_level |-> global_access_level, last_login |-> last_login]

AccessToken(username, token, expiration, remember) ==
    [username |-> username, token |-> token, expiration |-> expiration,
     remember |-> remember]

\* AccessToken.is_valid at time t
IsValid(access_token, t) == access_token.expiration > t

HasUser(db, username) == \E u \in db.users : u.username = username

GetUser(db, username) == CHOOSE u \in db.users : u.username = username

\* Database.add_user: the row, and USER access to every server
AddUser(db, user) ==
    [db EXCEPT !.users = @ \cup {user},
               !.server_users_access =
                   {a \in @ : a.user_name # user.username}
                   \cup {[server_name |-> s, user_name |-> user.username,
                          access_level |-> USER] : s \in db.servers}]

\* Database.update_user
UpdateUser(db, user) ==
    [db EXCEPT !.users = {IF u.username = user.username THEN user ELSE u : u \in @}]

\* Database.get_user_access: ValueError when there is no row
GetUserAccess(db, server_name, user_name) ==
    LET rows == {a \in db.server_users_access :
                    a.server_name = server_name /\ a.user_name = user_name}
    IN  IF rows = {} THEN [ok |-> FALSE, level |-> 0]
        ELSE [ok |-> TRUE, level |-> (CHOOSE a \in rows : TRUE).access_level]

\* Database.set_user_token: INSERT OR REPLACE, username is the primary key
\* and token is unique
SetUserToken(db, access_token) ==
    [db EXCEPT !.access_tokens =
        {a \in @ : a.username # access_token.username /\ a.token # access_token.token}
        \cup {access_token}]

ExistUserToken(db, token) == \E a \in db.access_tokens : a.token = token

GetUserTokenByToken(db, token) == CHOOSE a \in db.access_tokens : a.token = token

\* a mutant of DeleteUserToken: the row stays
DeleteUserTokenKeeps(db, token) == db

DeleteUserToken(db, token) ==
    [db EXCEPT !.access_tokens = {a \in @ : a.token # token}]

\* a response: status, message and, for login and register, the token
Response(status, message) == [status |-> status, message |-> message, token |-> 0]

\* the Authorization header: absent, or the text "Bearer " + token when
\* bearer, the bare token otherwise; token 0 is the empty string and token -1
\* a string no token was ever issued as
NoHeader == [present |-> FALSE, bearer |-> FALSE, token |-> 0]

Header(bearer, token) == [present |-> TRUE, bearer |-> bearer, token |-> token]

NoServer == "-"

\* HttpServer.request_auth up to the call of the route: pass, or the response
RequestAuth(db, t, server, authorization, access_level) ==
    IF ~authorization.present
    THEN [pass |-> FALSE, resp |-> Response(400, "Missing parameters")]
    ELSE IF ~authorization.bearer
    THEN [pass |-> FALSE, resp |-> Response(401, "Invalid token")]
    ELSE IF authorization.token = 0 \/ ~ExistUserToken(db, authorization.token)
    THEN [pass |-> FALSE, resp |-> Response(401, "Invalid token")]
    ELSE IF ~IsValid(GetUserTokenByToken(db, authorization.token), t)
    THEN [pass |-> FALSE, resp |-> Response(401, "Invalid token")]
    ELSE IF ~HasUser(db, GetUserTokenByToken(db, authorization.token).username)
    THEN [pass |-> FALSE, resp |-> Response(500, "Internal Server Error")]
    ELSE LET user == GetUser(db, GetUserTokenByToken(db, authorization.token).username)
         IN  IF server = NoServer
             THEN IF user.global_access_level < access_level
                  THEN [pass |-> FALSE, resp |-> Response(403, "Forbidden")]
                  ELSE [pass |-> TRUE, resp |-> Response(0, "")]
             ELSE IF ~GetUserAccess(db, server, user.username).ok
             THEN [pass |-> FALSE, resp |-> Response(500, "Internal Server Error")]
             ELSE IF GetUserAccess(db, server, user.username).level < access_level
             THEN [pass |-> FALSE, resp |-> Response(403, "Forbidden")]
             ELSE [pass |-> TRUE, resp |-> Response(0, "")]

\* what the clients may send
HttpNames == {"", "alice", "bob"}
HttpPasswords == {"", "pw", "other"}
HttpRemember == {"true", "maybe"}
HttpServers == {NoServer, "s1"}

Headers ==
    {NoHeader} \cup {Header(b, k) : b \in BOOLEAN, k \in {-1, 0} \cup 1..Len(hist.issued)}

\* the request and its response, as the history keeps them
HttpAnswer(route, req, resp) ==
    [route |-> route, req |-> req, status |-> resp.status, message |-> resp.message,
     token |-> resp.token, seq |-> 1 - hist.http.seq]

\* a mutant of RegisterResult: the route does not look the username up
RegisterResultUnchecked(db, t, username, password, remember, token) ==
    IF ~Str2Bool(remember).ok
    THEN [db |-> db, resp |-> Response(500, "Internal Server Error")]
    ELSE IF username = "" \/ password = ""
    THEN [db |-> db, resp |-> Response(400, "Missing parameters")]
    ELSE [db |-> db, resp |-> Response(500, "Internal Server Error")]

\* POST /api/register
RegisterResult(db, t, username, password, remember, token) ==
    IF ~Str2Bool(remember).ok
    THEN [db |-> db, resp |-> Response(500, "Internal Server Error")]
    ELSE IF username = "" \/ password = ""
    THEN [db |-> db, resp |-> Response(400, "Missing parameters")]
    ELSE IF HasUser(db, username)
    THEN [db |-> db, resp |-> Response(409, "User already exists")]
    ELSE IF ~(RegisterKwargs \subseteq UserParams)
    THEN [db |-> db, resp |-> Response(500, "Internal Server Error")]
    ELSE [db |-> SetUserToken(AddUser(db, User(username, HashString(password), t, USER)),
                              AccessToken(username, token, t + TokenLife,
                                          Str2Bool(remember).value)),
          resp |-> [status |-> 201, message |-> "", token |-> token]]

RegisterRoute ==
    \E username \in HttpNames, password \in HttpPasswords, remember \in HttpRemember :
       LET req == [username |-> username, password |-> password, remember |-> remember]
           res == RegisterResult(database, time, username, password, remember,
                                 Len(hist.issued) + 1)
       IN  /\ res.resp.status = 201 => Len(hist.issued) < MaxTokens
           /\ database' = res.db
           /\ hist' = [hist EXCEPT
                 !.http = HttpAnswer("register", req, res.resp),
                 !.issued = IF res.resp.status = 201
                            THEN Append(@, GetUserTokenByToken(res.db, res.resp.token))
                            ELSE @]
           /\ UNCHANGED <<bus_datas, ids, rings, disp, bus, lst, thr, scn, time>>

\* POST /api/login
LoginResult(db, t, username, password, remember, token) ==
    IF ~Str2Bool(remember).ok
    THEN [db |-> db, resp |-> Response(500, "Internal Server Error")]
    ELSE IF username = "" \/ password = ""
    THEN [db |-> db, resp |-> Response(400, "Missing parameters")]
    ELSE IF ~HasUser(db, username)
    THEN [db |-> db, resp |-> Response(401, "Unauthorized")]
    ELSE IF ~VerifyHash(password, GetUser(db, username).password)
    THEN [db |-> db, resp |-> Response(401, "Unauthorized")]
    ELSE [db |-> UpdateUser(SetUserToken(db, AccessToken(username, token, t + TokenLife,
                                                         Str2Bool(remember).value)),
                            [GetUser(db, username) EXCEPT !.last_login = t]),
          resp |-> [status |-> 200, message |-> "", token |-> token]]

LoginRoute ==
    \E username \in HttpNames, password \in HttpPasswords, remember \in HttpRemember :
       LET req == [username |-> username, password |-> password, remember |-> remember]
           res == LoginResult(database, time, username, password, remember,
                              Len(hist.issued) + 1)
       IN  /\ res.resp.status = 200 => Len(hist.issued) < MaxTokens
           /\ database' = res.db
           /\ hist' = [hist EXCEPT
                 !.http = HttpAnswer("login", req, res.resp),
                 !.issued = IF res.resp.status = 200
                            THEN Append(@, GetUserTokenByToken(res.db, res.resp.token))
                            ELSE @]
           /\ UNCHANGED <<bus_datas, ids, rings, disp, bus, lst, thr, scn, time>>

\* POST /api/logout, behind request_auth(AccessLevel.USER)
LogoutResult(db, t, server, authorization) ==
    LET auth == RequestAuth(db, t, server, authorization, USER)
    IN  IF ~auth.pass THEN [db |-> db, resp |-> auth.resp]
        ELSE [db |-> DeleteUserToken(db, authorization.token),
              resp |-> Response(200, "Logged out")]

LogoutRoute ==
    \E authorization \in Headers, server \in HttpServers :
       LET req == [authorization |-> authorization, server |-> server]
           res == LogoutResult(database, time, server, authorization)
       IN  /\ database' = res.db
           /\ hist' = [hist EXCEPT
                 !.http = HttpAnswer("logout", req, res.resp),
                 !.out = IF res.resp.status = 200 THEN @ \cup {authorization.token} ELSE @]
           /\ UNCHANGED <<bus_datas, ids, rings, disp, bus, lst, thr, scn, time>>

\* GET /api/user, behind request_auth(AccessLevel.USER)
GetUserInfoResult(db, t, server, authorization) ==
    LET auth == RequestAuth(db, t, server, authorization, USER)
    IN  IF ~auth.pass THEN auth.resp
        ELSE IF ~IsValid(GetUserTokenByToken(db, authorization.token), t)
        THEN Response(401, "Invalid token")
        ELSE Response(200, GetUser(db, GetUserTokenByToken(db, authorization.token).username).username)

GetUserInfo ==
    \E authorization \in Headers, server \in HttpServers :
       LET req == [authorization |-> authorization, server |-> server]
       IN  /\ hist' = [hist EXCEPT !.http = HttpAnswer("user", req,
                          GetUserInfoResult(database, time, server, authorization))]
           /\ UNCHANGED <<bus_datas, ids, rings, disp, bus, lst, thr, scn, database, time>>

\* an hour passes
Tick ==
    /\ time < MaxTime
    /\ time' = time + 1
    /\ UNCHANGED <<bus_datas, ids, rings, disp, bus, lst, thr, scn, database, hist>>

\* the file the server opens may hold the users of earlier runs; alice may
\* have access to the server s1
StoredUsers == {User(n, HashString("pw"), 0, USER) : n \in {"alice", "bob"}}

StoredAccess == {[server_name |-> "s1", user_name |-> "alice", access_level |-> USER]}

InitHttp ==
    /\ InitBuses(Scenario("http", {}, {0}, 0, 0), {1}, {2}, NoSubscribers, NoSubscribers,
                 OnlyT1("A"), {})
    /\ \E users \in SUBSET StoredUsers, access \in SUBSET StoredAccess :
          /\ \A a \in access : \E u \in users : u.username = a.user_name
          /\ database = [NewDatabase EXCEPT
                           !.users = users,
                           !.servers = {"s1"},
                           !.server_users_access = access]
    /\ time = 0

NextHttp == RegisterRoute \/ LoginRoute \/ LogoutRoute \/ GetUserInfo \/ Tick

SpecHttp == InitHttp /\ [][NextHttp]_vars

\* the request answered by this step
HttpStep(route) == hist'.http.seq # hist.http.seq /\ hist'.http.route = route

\* C27: a register request for a username that already exists is answered
\* with 409 "User already exists", a register request with an empty username
\* or an empty password with 400, and both leave the users, the access tokens
\* and every other table as they were
C27_RegisterRejects ==
    [][HttpStep("register") =>
         LET r == hist'.http
         IN  /\ (r.req.username = "" \/ r.req.password = "")
                  => r.status = 400 /\ database' = database
             /\ (HasUser(database, r.req.username) /\ r.req.password # "")
                  => /\ r.status = 409
                     /\ r.message = "User already exists"
                     /\ database' = database]_vars

\* C27, for the requests whose remember field is a boolean word: 400
\* "Missing parameters" for an empty username or password, 409 "User already
\* exists" for a stored username with a password; no register request of
\* either kind changes a table, whatever its remember field
C27_RegisterRejectsWellFormed ==
    [][HttpStep("register") =>
         LET r == hist'.http
         IN  /\ (r.req.username = "" \/ r.req.password = "")
                  => /\ database' = database
                     /\ Str2Bool(r.req.remember).ok
                          => r.status = 400 /\ r.message = "Missing parameters"
             /\ (HasUser(database, r.req.username) /\ r.req.password # "")
                  => /\ database' = database
                     /\ Str2Bool(r.req.remember).ok
                          => r.status = 409 /\ r.message = "User already exists"]_vars

\* a register request for the stored user alice was answered with 409 while
\* alice held an access token
C27_Witness ==
    /\ hist.http.route = "register"
    /\ hist.http.status = 409
    /\ hist.http.req.username = "alice"
    /\ \E a \in database.access_tokens : a.username = "alice"

\* a request that presents the token k: the Authorization header carries it,
\* with or without the Bearer prefix
Presents(req, k) == req.authorization.present /\ req.authorization.token = k

\* the request passes request_auth: the header is "Bearer " + token, the
\* token is stored and not expired, its user exists and, when the body names
\* a server, the user has an access row for it
Authenticates(db, t, req) ==
    RequestAuth(db, t, req.server, req.authorization, USER).pass

\* C28: a logout request presenting a token that login or register issued,
\* that is not expired and was not logged out is answered with 200 "Logged
\* out" and removes the token from the store; every later authenticated
\* request with a logged-out token is answered with 401 "Invalid token"; a
\* logout request with a token that is not in the store is answered with 401
\* and leaves the store as it was
C28_Logout ==
    /\ [][HttpStep("logout") =>
            LET r == hist'.http
                k == r.req.authorization.token
            IN  /\ (/\ r.req.authorization.present
                    /\ k \in 1..Len(hist.issued)
                    /\ k \notin hist.out
                    /\ IsValid(hist.issued[k], time))
                     => /\ r.status = 200
                        /\ r.message = "Logged out"
                        /\ ~ExistUserToken(database', k)
                /\ (r.req.authorization.present /\ ~ExistUserToken(database, k))
                     => r.status = 401 /\ database' = database]_vars
    /\ [][HttpStep("logout") \/ HttpStep("user") =>
            ((\E k \in hist.out : Presents(hist'.http.req, k))
               => hist'.http.status = 401 /\ hist'.http.message = "Invalid token")]_vars

\* C28, for the requests that pass request_auth: such a logout request is
\* answered with 200 "Logged out" and removes exactly the row of its token;
\* every later request with a logged-out token, to logout or to /api/user, is
\* answered with 401 "Invalid token"; a logout request with a token that is
\* not in the store is answered with 401 and changes no table
C28_LogoutStored ==
    /\ [][HttpStep("logout") =>
            LET r == hist'.http
                k == r.req.authorization.token
            IN  /\ Authenticates(database, time, r.req)
                     => /\ r.status = 200
                        /\ r.message = "Logged out"
                        /\ database' = [database EXCEPT !.access_tokens =
                                          {a \in @ : a.token # k}]
                        /\ ~ExistUserToken(database', k)
                        /\ k \in hist'.out
                /\ r.status = 200 => Authenticates(database, time, r.req)
                /\ (r.req.authorization.present /\ ~ExistUserToken(database, k))
                     => /\ r.status = 401
                        /\ r.message = "Invalid token"
                        /\ database' = database]_vars
    /\ [][HttpStep("logout") \/ HttpStep("user") =>
            ((\E k \in hist.out : Presents(hist'.http.req, k))
               => hist'.http.status = 401 /\ hist'.http.message = "Invalid token")]_vars
    /\ [](\A k \in hist.out : ~ExistUserToken(database, k))

\* a request to /api/user with a token that logout removed was answered 401
C28_Witness ==
    /\ hist.http.route = "user"
    /\ hist.http.status = 401
    /\ hist.http.req.authorization.bearer
    /\ hist.http.req.authorization.token \in hist.out

\* ---------------------------------------------------------------------------
\* The listener's pop against the dispatcher's writes into the read ring
\* ---------------------------------------------------------------------------

InRing(list, f) == \E i \in 1..Len(list) : list[i] = f

\* C29: under every interleaving of the dispatcher's writes into a read ring
\* with the listener's pops, a frame leaves the ring only in the step of the
\* listener that read it from slot 0: the read and the compaction act as one
\* step, and no frame that was written is shifted out unread
C29_PopAtomic ==
    [][\A key \in Keys :
          bus[key] # NoBus =>
            \A i \in 1..MemorySize :
               LET f == rings[bus[key].h].r[i]
               IN  (f.s # EmptyString /\ ~InRing(rings'[bus[key].h].r, f))
                     => /\ i = 1
                        /\ lst[key].pc = "read"
                        /\ lst'[key].raw = f]_vars

\* ---------------------------------------------------------------------------
\* One pop of the listener on a read ring of any size
\* ---------------------------------------------------------------------------

\* the largest ring
MaxRing == 3

\* frames the ring may hold
PopFrames == {[s |-> <<64 + u>>, uid |-> u, frag |-> 0] : u \in 1..4}

\* the rings of n slots that hold k frames, 1 <= k <= n, in slots 0..k-1 and
\* the empty string behind them: what the dispatcher's writes into the first
\* empty slot build
PopRingsOf(n) ==
    {ring \in [1..n -> PopFrames \cup {EmptySlot}] :
        \E k \in 1..n : \A i \in 1..n : (ring[i] = EmptySlot) <=> (i > k)}

PopRings == UNION {PopRingsOf(n) : n \in 1..MaxRing}

Fill(ring) == Cardinality({i \in 1..Len(ring) : ring[i] # EmptySlot})

InitPop ==
    \E ring \in PopRings :
        InitTwo(Scenario("pop", {ring}, {0}, 0, 0),
                {1}, {2}, NoSubscribers, NoSubscribers, OnlyT1("B"), {})

\* Bus.__read_incoming lines 189-191 on the ring: the read of slot 0 under
\* the lock, then __move_forward
ListenerPop ==
    /\ hist.popped = <<>>
    /\ \E ring \in scn.menu :
         hist' = [hist EXCEPT !.popped =
                    <<[ring |-> ring, raw |-> ring[1], after |-> BusShift(ring)]>>]
    /\ UNCHANGED <<bus_datas, ids, rings, disp, bus, lst, thr, scn, database, time>>

NextPop == ListenerPop

SpecPop == InitPop /\ [][NextPop]_vars

\* C30: for every ring size n >= 1 and every fill level 1 <= k <= n, one pop
\* on the ring f0..f(k-1) returns f0 and leaves f1..f(k-1) in slots 0..k-2
\* and the empty string in every other slot
C30_PopShifts ==
    \A i \in 1..Len(hist.popped) :
       LET p == hist.popped[i]
       IN  /\ p.raw = p.ring[1]
           /\ Len(p.after) = Len(p.ring)
           /\ \A j \in 1..Len(p.ring) :
                 p.after[j] = IF j <= Fill(p.ring) - 1 THEN p.ring[j + 1] ELSE EmptySlot

\* C30 restricted: the same for the rings of two slots, and for larger rings
\* that are not full
C30_PopShiftsNotFull ==
    \A i \in 1..Len(hist.popped) :
       LET p == hist.popped[i]
       IN  (Len(p.ring) = 2 \/ (Len(p.ring) > 2 /\ Fill(p.ring) < Len(p.ring)))
             => /\ p.raw = p.ring[1]
                /\ Len(p.after) = Len(p.ring)
                /\ \A j \in 1..Len(p.ring) :
                      p.after[j] = IF j <= Fill(p.ring) - 1 THEN p.ring[j + 1]
                                   ELSE EmptySlot

\* a pop on a ring of three slots that held two frames
C30_Witness ==
    \E i \in 1..Len(hist.popped) :
       /\ Len(hist.popped[i].ring) = 3
       /\ Fill(hist.popped[i].ring) = 2
       /\ hist.popped[i].after[1] = hist.popped[i].ring[2]

(***************************************************************************)
(* A frame whose routing prefix cannot be parsed (bus_dispatcher.py        *)
(* 106-114, 125-148).  Bus.__write always builds the prefix itself, so     *)
(* such a frame is left in the shared write list by a process that writes  *)
(* to the list without Bus.                                                *)
(***************************************************************************)
PrefixSends == 2

\* the tag of the frame written without Bus
RawUid == PrefixSends + 1

\* strings __get_source_target cannot unpack: no FILE_SEPARATOR, four fields
\* instead of five, a field that is no hexadecimal number
RawFrames ==
    {Str_t,
     Join(<<FormatHex(1, 2, TRUE), FormatHex(0, 2, TRUE), FormatHex(0, 2, TRUE),
            FormatHex(1, 2, TRUE)>>, GROUP_SEPARATOR) \o <<FILE_SEPARATOR>> \o Str_t,
     Join(<<FormatHex(1, 2, TRUE), Str_t, FormatHex(0, 2, TRUE), FormatHex(1, 2, TRUE),
            FormatHex(0, 2, TRUE)>>, GROUP_SEPARATOR) \o <<FILE_SEPARATOR>> \o Str_t}

\* A and B registered, the dispatcher not yet started, slot 0 of the write
\* ring of A holds the frame without a readable prefix
InitPrefix ==
    /\ \E raw \in RawFrames :
         InitBusesWith(Scenario("prefix", {MessageCall(Str_t)}, {0}, PrefixSends, 0),
                       {1}, {2}, NoSubscribers, NoSubscribers,
                       [t \in AppThreads |-> IF t = "t1" THEN "A"
                                             ELSE IF t = "t2" THEN "B" ELSE "-"],
                       {},
                       <<[NewRings EXCEPT !.w[1] = [s |-> raw, uid |-> RawUid, frag |-> 1]],
                         NewRings>>)
    /\ database = NewDatabase
    /\ time = 0

NextPrefix == Dispatcher \/ Sender

SpecPrefix == InitPrefix /\ [][NextPrefix]_vars /\ WF_vars(Dispatcher)

FullSends == 3

\* the tag of the frame B has not read
OldUid == FullSends + 1

\* A and B registered, the dispatcher not yet started; B, whose listener is
\* not started, has one frame of an earlier broadcast in its read ring
InitFull ==
    /\ InitBusesWith(Scenario("full", {MessageCall(Str_t)}, {0}, FullSends, 1),
                     {1}, {2}, NoSubscribers, NoSubscribers, OnlyT1("A"), {},
                     <<NewRings,
                       [NewRings EXCEPT !.r[1] = [s |-> Frame(1, 0, 0, 1, 0, Str_t),
                                                  uid |-> OldUid, frag |-> 1]]>>)
    /\ database = NewDatabase
    /\ time = 0

\* get_bus_data for a third key before the dispatcher thread is started
JoinBefore == disp.pc = "init" /\ JoinNew

NextFull == Dispatcher \/ Sender \/ JoinBefore

SpecFull == InitFull /\ [][NextFull]_vars

\* the read ring of key has no empty slot
ReadRingFull(key) ==
    /\ DictIndex(bus_datas, key) # 0
    /\ \A i \in 1..MemorySize :
          rings[bus_datas[DictIndex(bus_datas, key)].h].r[i].s # EmptyString

\* the inner loop of the dispatcher is at the entry of key, with a frame
\* addressed to it
AtEligible(key) ==
    /\ disp.pc = "inner"
    /\ disp.inner.pos < Len(bus_datas)
    /\ bus_datas[disp.inner.pos + 1].key = key
    /\ key # disp.rec_key
    /\ GetSourceTarget(disp.msg.s).ok
    /\ Eligible(key, GetSourceTarget(disp.msg.s).target_id)

\* the dispatcher has finished the pass over the frame of send uid
PassDone(uid) == ~(disp.pc \in {"inner", "move"} /\ disp.msg.uid = uid)

\* C32: when the dispatcher forwards a frame to an eligible peer P whose
\* read ring has no empty slot, the read ring of P is left unchanged, the
\* frame is still written to every other eligible peer that has an empty
\* slot, and the frame is still removed from the write ring of its source.
C32_FullPeerSkipped ==
    /\ [][\A key \in Keys :
            AtEligible(key) /\ ReadRingFull(key) /\ disp' # disp
            => rings' = rings]_vars
    /\ [](\A f \in hist.full :
            /\ \A i \in 1..MemorySize :
                  rings[bus_datas[DictIndex(bus_datas, f.to)].h].r[i].uid # f.uid
            /\ PassDone(f.uid)
               => /\ ~InWriteRing(f.uid)
                  /\ \A key \in Keys \ {"A"} :
                        DictIndex(bus_datas, key) # 0 => Served(f.uid, key))

\* a frame of A found the read ring of B full, was written into the read
\* ring of C and has left the write ring of A
C32_Witness ==
    \E f \in hist.full :
        /\ f.to = "B"
        /\ PassDone(f.uid)
        /\ \E g \in hist.fwd : g.uid = f.uid /\ g.to = "C"
        /\ \E i \in 1..MemorySize : rings[bus_datas[DictIndex(bus_datas, "C")].h].r[i].uid = f.uid
        /\ ~InWriteRing(f.uid)

(***************************************************************************)
(* A fragment that is not the next one of its message (bus.py 201-219).    *)
(* The dispatcher drops a frame whose peer has no empty read slot, so the  *)
(* fragment after a dropped one reaches the listener out of order.         *)
(***************************************************************************)
OrderSends == 2

\* a text whose MESSAGE event takes three frames
Str_long == [i \in 1..(2 * (MaxStringLength - PrefixLength) - 8) |-> 116]

\* A sends MESSAGE in one frame and in three frames, always with message
\* id 0; B listens with a MESSAGE subscriber
InitOrder ==
    InitTwo(Scenario("order", {MessageCall(Str_t), MessageCall(Str_long)}, {0},
                     OrderSends, 0),
            {1}, {2}, NoSubscribers, MessageSubscribers, OnlyT1("A"), {"B"})

NextOrder == Dispatcher \/ Listener \/ Sender \/ Worker

SpecOrder == InitOrder /\ [][NextOrder]_vars

\* the prefix of the frame at slot 0 of the read ring of key
HeadPrefix(key) == ReadPrefix(rings[bus[key].h].r[1].s).prefix

\* the listener of key is about to take a fragment of a message it is
\* reassembling whose fragment_number is not the number of fragments it has
\* taken of that message so far
WrongIndex(key) ==
    /\ lst[key].pc = "read"
    /\ bus[key].listen
    /\ rings[bus[key].h].r[1].s # EmptyString
    /\ ReadPrefix(rings[bus[key].h].r[1].s).ok
    /\ HeadPrefix(key).target_id \in {0, bus[key].id}
    /\ HeadPrefix(key).fragment_count > 1
    /\ HeadPrefix(key).message_id \in DOMAIN lst[key].buffer
    /\ HeadPrefix(key).fragment_number #
         HeadPrefix(key).fragment_count - lst[key].buffer[HeadPrefix(key).message_id].remaining

\* C33: when a fragment of a message in reassembly arrives with a
\* fragment_index that is not the next expected one, the listener discards
\* the message: its reassembly entry is removed and no callback is
\* dispatched.
C33_WrongIndexDiscards ==
    [][\A key \in Keys :
          WrongIndex(key) /\ rings'[bus[key].h].r # rings[bus[key].h].r
                          /\ rings'[bus[key].h].r[MemorySize].s = EmptyString
                          /\ lst'[key] # lst[key]
          => /\ HeadPrefix(key).message_id \notin DOMAIN lst'[key].buffer
             /\ hist'.dlog[key] = hist.dlog[key]]_vars

\* B's listener holds fragment 0 of the three-frame message and fragment 2
\* is at slot 0 of its read ring, fragment 1 having found the ring full
C33_Witness ==
    /\ WrongIndex("B")
    /\ HeadPrefix("B").fragment_number = 2
    /\ lst["B"].buffer[0].remaining = 2

(***************************************************************************)
(* Two sources that use the same message id (bus.py 160-163, 187-219).     *)
(***************************************************************************)
MergeSends == 2

\* A and B registered; B listens and has one frame of an earlier broadcast
\* of A in its read ring; a thread of A and a thread of C send MESSAGE in
\* two frames, always with message id 0
InitMerge ==
    /\ InitBusesWith(Scenario("merge", {MessageCall(Str_tt)}, {0}, MergeSends, 1),
                     {1}, {2}, NoSubscribers, NoSubscribers,
                     [t \in AppThreads |-> IF t = "t1" THEN "A"
                                           ELSE IF t = "t2" THEN "C" ELSE "-"],
                     {"B"},
                     <<NewRings,
                       [NewRings EXCEPT !.r[1] =
                          [s |-> Frame(1, 0, 0, 1, 0,
                                       EventEncode(MESSAGE, [n \in {"text"} |-> Str_t]).s),
                           uid |-> MergeSends + 1, frag |-> 1]]>>)
    /\ database = NewDatabase
    /\ time = 0

NextMerge == Dispatcher \/ Listener \/ Sender \/ JoinBefore \/ BusInit("C")

SpecMerge == InitMerge /\ [][NextMerge]_vars

\* the endpoint whose thread made the send uid
SenderOf(uid) == hist.sent[uid].bus

\* the listener of key is about to take a fragment whose message id is in
\* its buffer for a message of another source
OtherSource(key) ==
    /\ lst[key].pc = "read"
    /\ bus[key].listen
    /\ rings[bus[key].h].r[1].s # EmptyString
    /\ ReadPrefix(rings[bus[key].h].r[1].s).ok
    /\ HeadPrefix(key).target_id \in {0, bus[key].id}
    /\ HeadPrefix(key).fragment_count > 1
    /\ HeadPrefix(key).message_id \in DOMAIN lst[key].buffer
    /\ SenderOf(lst[key].buffer[HeadPrefix(key).message_id].uid) #
         SenderOf(rings[bus[key].h].r[1].uid)
    /\ ids[SenderOf(lst[key].buffer[HeadPrefix(key).message_id].uid)] #
         HeadPrefix(key).source_id

\* C34: two multi-fragment messages of different sources that carry the same
\* message_id and whose fragments arrive interleaved at one consumer are
\* reassembled independently: a fragment of one leaves the fragments kept
\* for the other as they are.
C34_SourcesApart ==
    [][\A key \in Keys :
          OtherSource(key) /\ lst'[key] # lst[key]
                           /\ rings'[bus[key].h].r # rings[bus[key].h].r
          => /\ HeadPrefix(key).message_id \in DOMAIN lst'[key].buffer
             /\ lst'[key].buffer[HeadPrefix(key).message_id] =
                  lst[key].buffer[HeadPrefix(key).message_id]]_vars

\* B's listener holds fragment 0 of a message of one source and fragment 0
\* of a message of the other source, with the same message id, is at slot 0
\* of its read ring
C34_Witness ==
    /\ OtherSource("B")
    /\ HeadPrefix("B").fragment_number = 0
    /\ lst["B"].buffer[0].remaining = 1

(***************************************************************************)
(* get_bus_data for a key that is registered already (bus_dispatcher.py    *)
(* 65-93), as Core.__start_server does when a server is started again.     *)
(***************************************************************************)
AgainSends == 2
AgainRegs == 1

\* A and B registered; a thread of B sends MESSAGE
InitAgain ==
    InitTwo(Scenario("again", {MessageCall(Str_t)}, {0}, AgainSends, AgainRegs),
            {1}, {2}, NoSubscribers, NoSubscribers, OnlyT1("B"), {})

\* get_bus_data for a key that is in the table
JoinAgain == \E key \in Keys : DictIndex(bus_datas, key) # 0 /\ GetBusData(key)

NextAgain == Dispatcher \/ Sender \/ JoinAgain

SpecAgain == InitAgain /\ [][NextAgain]_vars

\* the rings the table holds for key are the ones the Bus of key uses
SameHandle(key) == bus_datas[DictIndex(bus_datas, key)].h = bus[key].h

\* C35: get_bus_data for a key that is registered allocates no new rings:
\* the table keeps the same rings with the frames pending in them, and the
\* endpoint that uses the handle it got earlier is still served.
C35_SameRingsAgain ==
    /\ [][\A key \in Keys :
             DictIndex(bus_datas, key) # 0 /\ Len(hist'.got[key]) > Len(hist.got[key])
             => /\ Len(rings') = Len(rings)
                /\ bus_datas' = bus_datas]_vars
    /\ [](\A key \in Keys : DictIndex(bus_datas, key) # 0 /\ bus[key].h # 0
                            => SameHandle(key))

\* get_bus_data was called again for B while a frame of B waited in the
\* write ring of the handle B uses
C35_Witness ==
    /\ Len(hist.got["B"]) = 2
    /\ rings[bus["B"].h].w[1].s # EmptyString
    /\ ~SameHandle("B")

(***************************************************************************)
(* The timeout of wait_for (bus.py 255-275).                               *)
(***************************************************************************)
WaitSends == 2

\* the timeouts the calls pass: none elapsed allowed, the default, no limit
WaitTimeouts == {0, DefaultTimeout, -1}

\* B triggers PING, an event with a return type, with each of the timeouts;
\* A has no subscriber and no listener: no PING.return ever arrives
InitWait ==
    InitTwo(Scenario("wait", {Call(PING, [n \in {"server_name"} |-> Str_s], timeout) :
                                 timeout \in WaitTimeouts}, {0}, WaitSends, 0),
            {1}, {2}, NoSubscribers, NoSubscribers, OnlyT1("B"), {})

NextWait == Dispatcher \/ Sender \/ WaiterUnheard

\* the thread that called wait_for keeps turning in its loop, the dispatcher
\* in its own
SpecWait ==
    InitWait /\ [][NextWait]_vars /\ WF_vars(WaiterUnheard) /\ WF_vars(Dispatcher)

\* the thread t is in the loop of wait_for
Polling(t) == thr[t].pc = "wf_poll"

\* C36: wait_for, and so trigger of an event with a return type, called
\* with any timeout t >= 0, returns once t has elapsed when no matching
\* event arrives; only the timeout -1 waits without limit.
C36_TimeoutReturns ==
    \A t \in AppThreads : (Polling(t) /\ thr[t].timeout >= 0) ~> ~Polling(t)

\* for a timeout above 0 the call returns
C36_PositiveTimeoutReturns ==
    \A t \in AppThreads : (Polling(t) /\ thr[t].timeout > 0) ~> ~Polling(t)

\* a thread waits in wait_for with the timeout 0 after the dispatcher has
\* forwarded its request
C36_Witness ==
    /\ Polling("t1")
    /\ thr["t1"].timeout = 0
    /\ \E f \in hist.fwd : f.uid = thr["t1"].uid

(***************************************************************************)
(* Replies and the triggers that wait for them (bus.py 141-174, 246-275).  *)
(***************************************************************************)
\* the request that the message which started the latest worker answers
LatestReplyTo == hist.sent[hist.execs[Len(hist.execs)].spawn.uid].req

\* C37: when a reply is handled at an endpoint while triggers of the same
\* event wait there (two in flight, or a later one after an earlier one
\* timed out), it is stored as the result of the trigger whose request it
\* answers, and of no other.
C37_OwnReply ==
    [][Len(hist'.execs) > Len(hist.execs) =>
          \A t \in AppThreads :
              thr'[t].result # thr[t].result => LatestReplyTo' = thr[t].uid]_vars

\* the reply to a PING that timed out is in the read ring of B while a later
\* PING of the same thread waits for its own reply
C37_Witness ==
    /\ Polling("t1")
    /\ ~thr["t1"].result.set
    /\ \E i \in 1..MemorySize :
          /\ rings[bus["B"].h].r[i].uid \in 1..Len(hist.sent)
          /\ hist.sent[rings[bus["B"].h].r[i].uid].req \notin {0, thr["t1"].uid}
          /\ hist.sent[hist.sent[rings[bus["B"].h].r[i].uid].req].outcome = "returned"

(***************************************************************************)
(* The table of BusData changed while mainloop iterates over it            *)
(* (bus_dispatcher.py 44-93, 116-149).                                     *)
(***************************************************************************)
\* C38: a get_bus_data for a new key, or the release of a key, made while
\* mainloop runs never ends the main loop and never leaves a frame that was
\* forwarded already in the write ring of its source.
C38_TableChangeSafe ==
    /\ disp.pc # "crashed"
    /\ \A f \in hist.fwd : InWriteRing(f.uid) => ~PassDone(f.uid)

\* a third key was registered while mainloop was in its loops over the
\* table, after it had forwarded the frame it is dealing with
C38_Witness ==
    /\ ids["C"] # 0
    /\ disp.pc = "inner"
    /\ Len(bus_datas) # disp.inner.used
    /\ \E f \in hist.fwd : f.uid = disp.msg.uid

(***************************************************************************)
(* Core.stop (core.py 69-81) and Core.__stop_server (227-241).  A is the   *)
(* Bus of Core, B the Bus of a Minecraft server whose process is alive;    *)
(* hist.core is the statement of Core.stop the main thread has reached.    *)
(***************************************************************************)
CoreSends == 1

\* SERVER.STOP(server_name: str)
STOP == Event(<<"SERVER", "STOP">>, 5, <<EventArg("server_name", "str", 1)>>, "None")

\* the timeout Core.__stop_server passes to trigger and to join
StopTimeout == 30

\* Core.start has returned: both listeners run, the dispatcher thread has
\* been started; the thread of Core is t1, a thread of the server is t2
InitCore ==
    InitTwo(Scenario("core", {MessageCall(Str_t)}, {0}, CoreSends, 0),
            {1}, {2}, NoSubscribers, NoSubscribers,
            [t \in AppThreads |-> IF t = "t1" THEN "A" ELSE IF t = "t2" THEN "B" ELSE "-"],
            {"A", "B"})

\* lines 70-75 and Bus.stop up to the join
CoreBusStop ==
    /\ hist.core = "started"
    /\ bus' = [bus EXCEPT !["A"].listen = FALSE]
    /\ hist' = [hist EXCEPT !.core = IF bus["A"].listen THEN "bus_join" ELSE "bus_stopped"]
    /\ UNCHANGED <<bus_datas, ids, rings, disp, lst, thr, scn, database, time>>

\* Bus.stop: self.__thread.join() returns
CoreBusJoin ==
    /\ hist.core = "bus_join"
    /\ ~IsAlive(lst["A"])
    /\ hist' = [hist EXCEPT !.core = "bus_stopped"]
    /\ UNCHANGED <<bus_datas, ids, rings, disp, bus, lst, thr, scn, database, time>>

\* line 76: self.__bus_dispatcher.stop()
CoreDispStop ==
    /\ hist.core = "bus_stopped"
    /\ disp' = [disp EXCEPT !.running = FALSE]
    /\ hist' = [hist EXCEPT !.core = "disp_join", !.dstop = TRUE]
    /\ UNCHANGED <<bus_datas, ids, rings, bus, lst, thr, scn, database, time>>

\* line 77: self.__bus_dispatcher_thread.join() returns; line 78 stops the
\* user interfaces, which are not modelled
CoreDispJoin ==
    /\ hist.core = "disp_join"
    /\ disp.pc \in {"returned", "crashed"}
    /\ hist' = [hist EXCEPT !.core = "servers"]
    /\ UNCHANGED <<bus_datas, ids, rings, disp, bus, lst, thr, scn, database, time>>

\* __stop_server lines 228-235 for the server of B, whose process is alive:
\* trigger(SERVER.STOP) up to the loop that writes the frames
CoreStopServer ==
    /\ hist.core = "servers"
    /\ thr["t1"].pc = "idle"
    /\ \E mid \in scn.mids :
         LET enc == EventEncode(STOP, [n \in {"server_name"} |-> Str_s])
             uid == Len(hist.sent) + 1
         IN  /\ thr' = [thr EXCEPT !["t1"] =
                          Sending("t1", "A", STOP, 0, StopTimeout, enc.s, mid, uid, NoSpawn)]
             /\ hist' = [hist EXCEPT
                          !.core = "asked",
                          !.sent = Append(@, SentRecord("t1", "A", STOP,
                                                        [n \in {"server_name"} |-> Str_s],
                                                        0, enc.s, 0))]
    /\ UNCHANGED <<bus_datas, ids, rings, disp, bus, lst, scn, database, time>>

\* the send of SERVER.STOP has returned (or raised, which __stop_mc_servers
\* does not catch)
CoreAsked == hist.core = "asked" /\ thr["t1"].pc = "idle"

\* lines 236-240: join(timeout=30) returns with the process alive, which
\* has not been asked to stop; terminate() and join()
CoreTerminate ==
    /\ CoreAsked
    /\ hist.sent[Len(hist.sent)].outcome = "returned"
    /\ \A i \in 1..Len(hist.dlog["B"]) : hist.dlog["B"][i].event_id # STOP.id
    /\ hist' = [hist EXCEPT !.core = "terminated"]
    /\ UNCHANGED <<bus_datas, ids, rings, disp, bus, lst, thr, scn, database, time>>

\* line 80: release_all_shared_memories, called with no other thread of the
\* process left
CoreRelease ==
    /\ hist.core = "terminated"
    /\ bus_datas' = <<>>
    /\ rings' = [h \in 1..Len(rings) |-> [rings[h] EXCEPT !.live = FALSE]]
    /\ hist' = [hist EXCEPT !.core = "stopped"]
    /\ UNCHANGED <<ids, disp, bus, lst, thr, scn, database, time>>

CoreStop ==
    \/ CoreBusStop \/ CoreBusJoin \/ CoreDispStop \/ CoreDispJoin
    \/ CoreStopServer \/ SendWrite("t1") \/ CoreTerminate \/ CoreRelease

\* the server process triggers events of its own while it is alive
ServerSends == hist.core \notin {"terminated", "stopped"} /\ (Trigger("t2") \/ SendWrite("t2"))

\* the listener of the server runs while its process is alive
ServerListens ==
    /\ hist.core \notin {"terminated", "stopped"}
    /\ ListenerTake("B") \/ ListenerReadEmpty("B") \/ ListenerShiftEmpty("B")

CoreListens ==
    \/ ListenerTake("A") \/ ListenerReadEmpty("A") \/ ListenerShiftEmpty("A")
    \/ ListenerExit("A")

NextCore == Dispatcher \/ CoreStop \/ CoreListens \/ ServerSends \/ ServerListens

SpecCore == InitCore /\ [][NextCore]_vars

\* the frame of the SERVER.STOP request of Core has been written into the
\* read ring of key
StopForwarded(key) ==
    \E j \in 1..Len(hist.sent) :
        /\ hist.sent[j].event_id = STOP.id
        /\ \E f \in hist.fwd : f.uid = j /\ f.to = key

\* C39: during Core.stop(), the SERVER.STOP request Core triggers for a
\* server whose process is alive has been forwarded by the dispatcher into
\* the read ring of that server before the process is terminated by force.
C39_StopReachesServer ==
    hist.core \in {"terminated", "stopped"} => StopForwarded("B")

\* Core has terminated the server process; the SERVER.STOP frame is still
\* in the write ring of Core, the dispatcher thread having returned
C39_Witness ==
    /\ hist.core = "terminated"
    /\ disp.pc = "returned"
    /\ \E i \in 1..MemorySize :
          /\ rings[bus["A"].h].w[i].uid \in 1..Len(hist.sent)
          /\ hist.sent[rings[bus["A"].h].w[i].uid].event_id = STOP.id

(***************************************************************************)
(* The ring locks (bus.py 46-50, 133-139, 188-192; bus_dispatcher.py       *)
(* 95-145): every with-block in two steps, the acquisition of the lock and *)
(* the block with the release that ends it.                                *)
(***************************************************************************)
LockSends == 2

\* a with-block that leaves the lock taken
ExitKeeps(lock) == lock

\* the end of a with-block, reached by its last statement, by break or by
\* an exception: Lock.__exit__ releases
Exit(lock) == Free

\* the threads that take ring locks
SenderThread(t) == <<"thread", t>>
ListenerThread(key) == <<"listener", key>>
DispatcherThread == <<"dispatcher">>

\* Bus.__write up to the with of line 133: the frame too long raises
\* before, else the thread waits for write_list_lock and takes it
LockWriteEnter(t) ==
    /\ thr[t].pc = "write"
    /\ LET me == thr[t]
           b == bus[me.bus]
           slot == Frame(b.id, me.to, me.i - 1, Len(me.parts), me.mid, me.parts[me.i])
       IN  IF Len(slot) > MaxStringLength
           THEN /\ thr' = [thr EXCEPT ![t] = IdleThread(IF t \in AppThreads THEN me.bus ELSE "-")]
                /\ hist' = [hist EXCEPT !.sent[me.uid].outcome = "raised",
                                        !.sent[me.uid].too_long = TRUE]
                /\ UNCHANGED rings
           ELSE /\ rings[b.h].wl = Free
                /\ rings' = [rings EXCEPT ![b.h].wl = SenderThread(t)]
                /\ thr' = [thr EXCEPT ![t].pc = "write_in"]
                /\ UNCHANGED hist
    /\ UNCHANGED <<bus_datas, ids, disp, bus, lst, scn, database, time>>

\* lines 134-139 and the end of the with: the frame is written into the
\* first empty position, or ValueError leaves the block; then the loop of
\* Bus.__send goes on or the call returns
LockWriteLeave(t) ==
    /\ thr[t].pc = "write_in"
    /\ LET me == thr[t]
           b == bus[me.bus]
           slot == [s |-> Frame(b.id, me.to, me.i - 1, Len(me.parts), me.mid,
                                me.parts[me.i]),
                    uid |-> me.uid, frag |-> me.i]
           w == BusWrite(rings[b.h].w, slot)
       IN  /\ rings' = [rings EXCEPT ![b.h].w = w.list, ![b.h].wl = Exit(@)]
           /\ IF ~w.ok
              THEN /\ thr' = [thr EXCEPT ![t] =
                                IdleThread(IF t \in AppThreads THEN me.bus ELSE "-")]
                   /\ hist' = [hist EXCEPT !.sent[me.uid].outcome = "raised",
                                           !.sat = TRUE]
              ELSE IF me.i < Len(me.parts)
              THEN /\ thr' = [thr EXCEPT ![t].i = @ + 1, ![t].pc = "write"]
                   /\ hist' = [hist EXCEPT !.wrote[me.bus] =
                                  Append(@, Written(me.uid, me.i, slot.s))]
              ELSE IF me.event.return_type # "None"
              THEN /\ thr' = [thr EXCEPT ![t].pc = "wf_reg"]
                   /\ hist' = [hist EXCEPT !.wrote[me.bus] =
                                  Append(@, Written(me.uid, me.i, slot.s))]
              ELSE /\ thr' = [thr EXCEPT ![t] =
                                IdleThread(IF t \in AppThreads THEN me.bus ELSE "-")]
                   /\ hist' = [hist EXCEPT
                                !.wrote[me.bus] = Append(@, Written(me.uid, me.i, slot.s)),
                                !.sent[me.uid].outcome = "returned"]
    /\ UNCHANGED <<bus_datas, ids, disp, bus, lst, scn, database, time>>

\* Bus.__read_incoming line 190: the listener takes read_list_lock
LockReadEnter(key) ==
    /\ lst[key].pc = "read"
    /\ bus[key].listen
    /\ rings[bus[key].h].rl = Free
    /\ rings' = [rings EXCEPT ![bus[key].h].rl = ListenerThread(key)]
    /\ lst' = [lst EXCEPT ![key].pc = "read_in"]
    /\ UNCHANGED <<bus_datas, ids, disp, bus, thr, scn, database, time, hist>>

\* line 191 and the end of the with
LockReadLeave(key) ==
    /\ lst[key].pc = "read_in"
    /\ rings' = [rings EXCEPT ![bus[key].h].rl = Exit(@)]
    /\ lst' = [lst EXCEPT ![key].raw = rings[bus[key].h].r[1], ![key].pc = "shift"]
    /\ UNCHANGED <<bus_datas, ids, disp, bus, thr, scn, database, time, hist>>

\* line 192, Bus.__move_forward line 47: the lock is taken again
LockShiftEnter(key) ==
    /\ lst[key].pc = "shift"
    /\ rings[bus[key].h].rl = Free
    /\ rings' = [rings EXCEPT ![bus[key].h].rl = ListenerThread(key)]
    /\ lst' = [lst EXCEPT ![key].pc = "shift_in"]
    /\ UNCHANGED <<bus_datas, ids, disp, bus, thr, scn, database, time, hist>>

\* Bus.__move_forward lines 48-50 and the end of the with; lines 193-195
\* when the string read was the empty one
LockShiftLeave(key) ==
    /\ lst[key].pc = "shift_in"
    /\ rings' = [rings EXCEPT ![bus[key].h].r = BusShift(@), ![bus[key].h].rl = Exit(@)]
    /\ lst' = [lst EXCEPT ![key].pc = IF lst[key].raw.s = EmptyString THEN "read" ELSE "rest"]
    /\ hist' = [hist EXCEPT !.lost = @ \cup
                  {[uid |-> rings[bus[key].h].r[1].uid, frag |-> rings[bus[key].h].r[1].frag,
                    to |-> key] : x \in IF rings[bus[key].h].r[1] = lst[key].raw
                                        THEN {} ELSE {1}}]
    /\ UNCHANGED <<bus_datas, ids, disp, bus, thr, scn, database, time>>

\* lines 196-243 for the frame read: no ring lock is taken in them
LockRest(key) ==
    /\ lst[key].pc = "rest"
    /\ LET Entry(raw, p, l, spawned) ==
             [uid |-> raw.uid, frag |-> raw.frag,
              fragment_number |-> p.fragment_number,
              fragment_count |-> p.fragment_count,
              source_id |-> p.source_id, muid |-> l.msg.uid,
              event_id |-> l.event.e.id, args |-> l.args.a, spawned |-> spawned]
           Rest(raw, ra, di) ==
             IF ra.next = "dead" \/ (ra.next = "fall" /\ di.next = "dead")
             THEN /\ lst' = [lst EXCEPT ![key] =
                               [(IF ra.next = "dead" THEN ra.l ELSE di.l) EXCEPT
                                  !.pc = "dead", !.running = @ - 1]]
                  /\ UNCHANGED <<thr, hist>>
             ELSE IF ra.next = "continue"
             THEN /\ lst' = [lst EXCEPT ![key] = ra.l]
                  /\ UNCHANGED <<thr, hist>>
             ELSE IF di.next \in {"skip", "failed"}
             THEN /\ lst' = [lst EXCEPT ![key] = di.l]
                  /\ UNCHANGED <<thr, hist>>
             ELSE IF di.next = "nosub"
             THEN /\ lst' = [lst EXCEPT ![key] = di.l]
                  /\ hist' = [hist EXCEPT !.dlog[key] =
                                Append(@, Entry(raw, ra.l.prefix, di.l, FALSE))]
                  /\ UNCHANGED thr
             ELSE /\ FreeWorker # "-"
                  /\ lst' = [lst EXCEPT ![key] = di.l]
                  /\ thr' = [thr EXCEPT ![FreeWorker] =
                               [IdleThread(key) EXCEPT
                                  !.pc = "exec",
                                  !.spawn = [uid |-> di.l.msg.uid, frag |-> raw.frag,
                                             event_id |-> di.l.event.e.id,
                                             args |-> di.l.args.a,
                                             source_id |-> ra.l.prefix.source_id]]]
                  /\ hist' = [hist EXCEPT !.dlog[key] =
                                Append(@, Entry(raw, ra.l.prefix, di.l, TRUE))]
           Process(raw, ra) == Rest(raw, ra, Dispatch(ra.l, bus[key]))
           Turn(raw) == Process(raw, Reassemble([lst[key] EXCEPT !.pc = "read"], bus[key]))
       IN  Turn(lst[key].raw)
    /\ UNCHANGED <<bus_datas, ids, rings, disp, bus, scn, database, time>>

\* mainloop line 120: the next entry of the table (RuntimeError when the
\* dict changed size), or the end of the for, the sleep and line 119
LockDispNext ==
    /\ disp.pc = "outer"
    /\ IF Len(bus_datas) # disp.outer.used
       THEN disp' = [disp EXCEPT !.pc = "crashed"]
       ELSE IF disp.outer.pos >= Len(bus_datas)
       THEN disp' = WhileStep(disp)
       ELSE disp' = [disp EXCEPT !.outer.pos = @ + 1,
                                 !.rec_key = bus_datas[disp.outer.pos + 1].key,
                                 !.msg = EmptySlot,
                                 !.pc = "take"]
    /\ UNCHANGED <<bus_datas, ids, rings, bus, lst, thr, scn, database, time, hist>>

\* the rings of the entry the outer for is at
RecRings == bus_datas[disp.outer.pos].h

\* line 121: the dispatcher takes write_list_lock of the entry
LockDispTakeEnter ==
    /\ disp.pc = "take"
    /\ rings[RecRings].wl = Free
    /\ rings' = [rings EXCEPT ![RecRings].wl = DispatcherThread]
    /\ disp' = [disp EXCEPT !.pc = "take_in"]
    /\ UNCHANGED <<bus_datas, ids, bus, lst, thr, scn, database, time, hist>>

\* line 122 and the end of the with; lines 123-124
LockDispTakeLeave ==
    /\ disp.pc = "take_in"
    /\ rings' = [rings EXCEPT ![RecRings].wl = Exit(@)]
    /\ disp' = [disp EXCEPT !.msg = rings[RecRings].w[1],
                            !.pc = IF rings[RecRings].w[1].s = EmptyString
                                   THEN "outer" ELSE "inner",
                            !.inner = DictIter(bus_datas)]
    /\ UNCHANGED <<bus_datas, ids, bus, lst, thr, scn, database, time, hist>>

\* lines 127-133: the next entry of the inner for that the frame is for;
\* RuntimeError and the ValueError of the prefix go to the except of line 146
LockDispPeer ==
    /\ disp.pc = "inner"
    /\ IF Len(bus_datas) # disp.inner.used
       THEN disp' = [disp EXCEPT !.pc = "outer"]
       ELSE IF disp.inner.pos >= Len(bus_datas)
       THEN disp' = [disp EXCEPT !.pc = "move"]
       ELSE LET Entry(e, st) ==
                  IF SameKey(e.key, disp.rec_key)
                  THEN disp' = [disp EXCEPT !.inner.pos = @ + 1]
                  ELSE IF ~st.ok
                  THEN disp' = [disp EXCEPT !.pc = "outer"]
                  ELSE IF ~Eligible(e.key, st.target_id)
                  THEN disp' = [disp EXCEPT !.inner.pos = @ + 1]
                  ELSE disp' = [disp EXCEPT !.inner.pos = @ + 1, !.pc = "put"]
            IN  Entry(bus_datas[disp.inner.pos + 1], GetSourceTarget(disp.msg.s))
    /\ UNCHANGED <<bus_datas, ids, rings, bus, lst, thr, scn, database, time, hist>>

\* the rings of the entry the inner for is at
PeerRings == bus_datas[disp.inner.pos].h

\* line 135: the dispatcher takes read_list_lock of the peer
LockDispPutEnter ==
    /\ disp.pc = "put"
    /\ rings[PeerRings].rl = Free
    /\ rings' = [rings EXCEPT ![PeerRings].rl = DispatcherThread]
    /\ disp' = [disp EXCEPT !.pc = "put_in"]
    /\ UNCHANGED <<bus_datas, ids, bus, lst, thr, scn, database, time, hist>>

\* lines 136-143 and the end of the with: the frame is written into the
\* first empty slot of the read list, or a warning is logged
LockDispPutLeave ==
    /\ disp.pc = "put_in"
    /\ LET i == FirstEmpty(rings[PeerRings].r)
           key == bus_datas[disp.inner.pos].key
           target_id == GetSourceTarget(disp.msg.s).target_id
       IN  IF i = 0
           THEN /\ rings' = [rings EXCEPT ![PeerRings].rl = Exit(@)]
                /\ hist' = [hist EXCEPT
                             !.sat = TRUE,
                             !.full = @ \cup {[uid |-> disp.msg.uid,
                                               frag |-> disp.msg.frag, to |-> key]}]
           ELSE /\ rings' = [rings EXCEPT ![PeerRings].r[i] = disp.msg,
                                          ![PeerRings].rl = Exit(@)]
                /\ hist' = [hist EXCEPT
                             !.fwd = @ \cup {Forwarded(key, target_id)},
                             !.dup = IF Forwarded(key, target_id) \in hist.fwd
                                     THEN @ \cup {Forwarded(key, target_id)}
                                     ELSE @]
    /\ disp' = [disp EXCEPT !.pc = "inner"]
    /\ UNCHANGED <<bus_datas, ids, bus, lst, thr, scn, database, time>>

\* line 145, __move_forward lines 99-101: the lookup of the key (KeyError
\* goes to the except of line 146), then write_list_lock is taken
LockDispMoveEnter ==
    /\ disp.pc = "move"
    /\ IF DictIndex(bus_datas, disp.rec_key) = 0
       THEN /\ disp' = [disp EXCEPT !.pc = "outer"]
            /\ UNCHANGED rings
       ELSE /\ rings[bus_datas[DictIndex(bus_datas, disp.rec_key)].h].wl = Free
            /\ rings' = [rings EXCEPT
                           ![bus_datas[DictIndex(bus_datas, disp.rec_key)].h].wl =
                              DispatcherThread]
            /\ disp' = [disp EXCEPT !.pc = "move_in"]
    /\ UNCHANGED <<bus_datas, ids, bus, lst, thr, scn, database, time, hist>>

\* __move_forward lines 102-104 and the end of the with
LockDispMoveLeave ==
    /\ disp.pc = "move_in"
    /\ \E h \in 1..Len(rings) :
          /\ rings[h].wl = DispatcherThread
          /\ rings' = [rings EXCEPT ![h].w = DispShift(@), ![h].wl = Exit(@)]
    /\ disp' = [disp EXCEPT !.pc = "outer"]
    /\ UNCHANGED <<bus_datas, ids, bus, lst, thr, scn, database, time, hist>>

LockDispatcher ==
    \/ DispEnter \/ DispWhile \/ LockDispNext \/ LockDispTakeEnter \/ LockDispTakeLeave
    \/ LockDispPeer \/ LockDispPutEnter \/ LockDispPutLeave
    \/ LockDispMoveEnter \/ LockDispMoveLeave

LockSender == \E t \in AppThreads : Trigger(t) \/ LockWriteEnter(t) \/ LockWriteLeave(t)

LockListener ==
    \E key \in Keys :
        \/ LockReadEnter(key) \/ LockReadLeave(key)
        \/ LockShiftEnter(key) \/ LockShiftLeave(key) \/ LockRest(key)

\* two threads of A send MESSAGE in one frame and in two frames, B listens
InitLock ==
    InitTwo(Scenario("lock", {MessageCall(Str_t), MessageCall(Str_tt)}, {0}, LockSends, 0),
            {1}, {2}, NoSubscribers, NoSubscribers, BothThreads("A"), {"B"})

NextLock == LockDispatcher \/ LockSender \/ LockListener

SpecLock == InitLock /\ [][NextLock]_vars

\* the ring locks who holds: pairs of a ring handle and "w" or "r"
Held(who) ==
    {<<h, "w">> : h \in {g \in 1..Len(rings) : rings[g].wl = who}}
    \cup {<<h, "r">> : h \in {g \in 1..Len(rings) : rings[g].rl = who}}

\* who is inside a with-block
Inside(who) ==
    \/ \E t \in AppThreads : who = SenderThread(t) /\ thr[t].pc = "write_in"
    \/ \E key \in Keys : who = ListenerThread(key) /\ lst[key].pc \in {"read_in", "shift_in"}
    \/ who = DispatcherThread /\ disp.pc \in {"take_in", "put_in", "move_in"}

LockUsers ==
    {SenderThread(t) : t \in AppThreads} \cup {ListenerThread(key) : key \in Keys}
    \cup {DispatcherThread}

\* C40: no thread ever holds two ring locks at once, and a thread holds a
\* ring lock only inside the with-block it took it for: every lock taken is
\* released on every way out of the block, the ring-full error included, so
\* that whoever waits for a ring lock waits for a thread that goes on to
\* release it.
C40_LockDiscipline ==
    /\ \A who \in LockUsers :
          /\ Cardinality(Held(who)) <= 1
          /\ Held(who) # {} <=> Inside(who)
    /\ \A h \in 1..Len(rings) : rings[h].wl \in LockUsers \cup {Free}
                                /\ rings[h].rl \in LockUsers \cup {Free}

\* a send of A has raised the ring-full error and left the block; now
\* another thread of A holds write_list_lock and the dispatcher waits for it
C40_Witness ==
    /\ \E j \in 1..Len(hist.sent) :
          /\ hist.sent[j].outcome = "raised"
          /\ Held(SenderThread(hist.sent[j].thread)) = {}
          /\ \E t \in AppThreads \ {hist.sent[j].thread} :
                rings[bus["A"].h].wl = SenderThread(t)
    /\ disp.pc \in {"take", "move"}
    /\ disp.rec_key = "A"
=============================================================================
